---- MODULE Spec2Model ----
(***************************************************************************)
(* Model of elastic_agent_log_analyzer.py: the record normalizer           *)
(* (process_log_entry), the server group and its loader threads            *)
(* (load_file / add_file / _load_file_thread) and the viewer's filter      *)
(* (apply_filters).                                                         *)
(*                                                                         *)
(* Text is a sequence of symbols (a symbol is a TLA+ string standing for   *)
(* one character or one indivisible chunk of characters); the empty        *)
(* Python string is <<>>.  A JSON value is a record [ty, s]: its JSON type *)
(* and its text.  An instant is [aware, t]: whether the datetime carries a *)
(* UTC offset, and the seconds elapsed since datetime.min.                 *)
(***************************************************************************)
EXTENDS Integers, Sequences, FiniteSets, TLC

VARIABLES
    logs,           \* ServerGroup.logs
    components,     \* ServerGroup.components
    log_levels,     \* ServerGroup.log_levels
    loaded_files,   \* ServerGroup.loaded_files
    threads,        \* the Load and Add requests made so far, in order, each
                    \* with the state of the thread it started
    files,          \* the lines of each file on disk (or Unreadable)
    timezone_var,   \* MultiServerLogViewer.timezone_var
    filters,        \* the viewer's filter widgets
    filtered_logs,  \* ServerViewer.filtered_logs
    view,           \* what the last apply_filters call did
    entry,          \* the decoded JSON document handed to process_log_entry
    processed,      \* what process_log_entry did with it
    engine,         \* the arguments of a ComparisonEngine call and what it
                    \* returned
    analysis_text,  \* the content of ServerViewer.analysis_text
    report,         \* what the last press of an analysis button did
    calls,          \* the add_log and clear calls in progress on the group,
                    \* each with the statement it has reached
    app             \* MultiServerLogViewer: the tabs of main_notebook and the
                    \* dictionaries of servers

vars == <<logs, components, log_levels, loaded_files, threads, files,
          timezone_var, filters, filtered_logs, view, entry, processed,
          engine, analysis_text, report, calls, app>>

groupVars == <<logs, components, log_levels, loaded_files>>
viewVars == <<filters, filtered_logs, view>>
normVars == <<entry, processed>>
callVars == <<engine, analysis_text, report>>
appVars == <<calls, app>>

----------------------------------------------------------------------------
(* JSON values and Python's view of them *)

JAbsent == [ty |-> "absent", s |-> <<>>]
JNull == [ty |-> "null", s |-> <<>>]
JList == [ty |-> "list", s |-> <<"[1]">>]
JDict == [ty |-> "dict", s |-> <<>>]
JStr(s) == [ty |-> "str", s |-> s]
JNum(s) == [ty |-> "num", s |-> s]

\* bool(v)
Truthy(v) ==
    CASE v.ty = "str" -> v.s # <<>>
      [] v.ty = "num" -> v.s # <<"0">>
      [] v.ty \in {"list", "dict"} -> TRUE
      [] OTHER -> FALSE

\* str(v)
PyStr(v) ==
    CASE v.ty = "null" -> <<"None">>
      [] v.ty = "dict" -> <<"{}">>
      [] OTHER -> v.s

\* len(v) succeeds
HasLen(v) == v.ty \in {"str", "list", "dict"}

----------------------------------------------------------------------------
(* datetime *)

\* datetime.min
Sentinel == [aware |-> FALSE, t |-> 0]

\* a < b and a > b raise TypeError between an offset-naive and an
\* offset-aware datetime; a == b does not
Comparable(a, b) == a.aware = b.aware

SecondsPerHour == 3600

\* the date-time part of an ISO-8601 string, in seconds since datetime.min
IsoBody ==
    [b \in {"0001-01-01T00:00:00", "0001-01-01T03:00:00",
            "0001-01-01T10:00:00", "0001-01-01T10:01:00",
            "0001-01-01T10:01:30", "0001-01-01T10:03:00",
            "0001-01-01T10:05:00"} |->
        CASE b = "0001-01-01T00:00:00" -> 0
          [] b = "0001-01-01T03:00:00" -> 3 * SecondsPerHour
          [] b = "0001-01-01T10:00:00" -> 10 * SecondsPerHour
          [] b = "0001-01-01T10:01:00" -> 10 * SecondsPerHour + 60
          [] b = "0001-01-01T10:01:30" -> 10 * SecondsPerHour + 90
          [] b = "0001-01-01T10:03:00" -> 10 * SecondsPerHour + 180
          [] b = "0001-01-01T10:05:00" -> 10 * SecondsPerHour + 300]

\* s.replace('Z', '+00:00')
ReplaceZ(s) == [i \in DOMAIN s |-> IF s[i] = "Z" THEN "+00:00" ELSE s[i]]

\* datetime.fromisoformat(s): a date-time, optionally followed by an offset
FromIso(s) ==
    IF /\ Len(s) \in {1, 2}
       /\ s[1] \in DOMAIN IsoBody
       /\ Len(s) = 2 => s[2] = "+00:00"
    THEN [ok |-> TRUE, dt |-> [aware |-> Len(s) = 2, t |-> IsoBody[s[1]]]]
    ELSE [ok |-> FALSE, dt |-> Sentinel]

TzNames ==
    {"UTC", "Eastern (EDT)", "Eastern (EST)", "Central (CDT)", "Central (CST)",
     "Mountain (MDT)", "Mountain (MST)", "Pacific (PDT)", "Pacific (PST)"}

tz_map ==
    [z \in TzNames |->
        CASE z = "UTC" -> 0
          [] z = "Eastern (EDT)" -> -4
          [] z \in {"Eastern (EST)", "Central (CDT)"} -> -5
          [] z \in {"Central (CST)", "Mountain (MDT)"} -> -6
          [] z \in {"Mountain (MST)", "Pacific (PDT)"} -> -7
          [] z = "Pacific (PST)" -> -8]

tz_names ==
    [z \in TzNames |->
        CASE z = "UTC" -> "UTC"
          [] z = "Eastern (EDT)" -> "EDT"
          [] z = "Eastern (EST)" -> "EST"
          [] z = "Central (CDT)" -> "CDT"
          [] z = "Central (CST)" -> "CST"
          [] z = "Mountain (MDT)" -> "MDT"
          [] z = "Mountain (MST)" -> "MST"
          [] z = "Pacific (PDT)" -> "PDT"
          [] z = "Pacific (PST)" -> "PST"]

\* convert_timezone: utc_timestamp + timedelta(hours=offset_hours); the sum
\* raises OverflowError below datetime.min
convert_timezone(utc_timestamp, tz) ==
    LET offset_hours == IF tz \in TzNames THEN tz_map[tz] ELSE 0
        t == utc_timestamp.t + offset_hours * SecondsPerHour
    IN  [ok |-> t >= 0, dt |-> [aware |-> utc_timestamp.aware, t |-> t]]

get_timezone_name(tz) == IF tz \in TzNames THEN tz_names[tz] ELSE "UTC"

\* local_timestamp.strftime(f'%Y-%m-%d %H:%M:%S {tz_name}')
Strftime(local_timestamp, tz_name) ==
    [ty |-> "fmt", t |-> local_timestamp.t, s |-> <<tz_name>>]

\* a display timestamp that is a value as it stands
Verbatim(v) == [ty |-> v.ty, t |-> -1, s |-> v.s]

\* the loop of lines 653-658 over the logs of a group, from the i-th on:
\* convert_timezone raising ends the handler with the later records as
\* they were
RECURSIVE DisplayedFrom(_, _, _)
DisplayedFrom(ls, tz, i) ==
    IF i > Len(ls) THEN [raised |-> FALSE, logs |-> ls]
    ELSE IF ls[i].parsed_timestamp # Sentinel
    THEN LET local_timestamp == convert_timezone(ls[i].parsed_timestamp, tz)
             tz_name == get_timezone_name(tz)
         IN  IF local_timestamp.ok
             THEN DisplayedFrom(
                    [ls EXCEPT ![i].timestamp =
                                  Strftime(local_timestamp.dt, tz_name)],
                    tz, i + 1)
             ELSE [raised |-> TRUE, logs |-> ls]
    ELSE DisplayedFrom(ls, tz, i + 1)

\* on_timezone_change, lines 650-658, for the logs of one group
on_timezone_change(ls, tz) == DisplayedFrom(ls, tz, 1)

----------------------------------------------------------------------------
(* process_log_entry *)

PreviewLen == 100

Unknown == JStr(<<"unknown">>)

\* process_log_entry has not been called
Idle == [called |-> FALSE]

\* the call raised: there is no record
NoRecord == [raised |-> TRUE]

\* the timestamp fields of the record: lines 558-574
ExtractTimestamp(e, tz) ==
    LET timestamp_str == IF e.ts.ty = "absent" THEN JStr(<<>>) ELSE e.ts
        parsed == IF timestamp_str.ty = "str"
                  THEN FromIso(ReplaceZ(timestamp_str.s))
                  ELSE [ok |-> FALSE, dt |-> Sentinel]
        local == convert_timezone(parsed.dt, tz)
    IN  IF Truthy(timestamp_str)
        THEN IF parsed.ok /\ local.ok
             THEN [parsed_timestamp |-> parsed.dt,
                   timestamp |-> Strftime(local.dt, get_timezone_name(tz))]
             ELSE [parsed_timestamp |-> Sentinel,
                   timestamp |-> Verbatim(timestamp_str)]
        ELSE [parsed_timestamp |-> Sentinel,
              timestamp |-> Verbatim(JStr(<<"N/A">>))]

\* lines 576-578
ExtractLevel(e) == IF e.level.ty = "absent" THEN Unknown ELSE e.level

\* lines 580-591 with the two branches of the outer test exchanged:
\* service.name consulted before 'component'
ExtractComponentServiceFirst(e) ==
    IF e.service_name.ty # "absent" THEN e.service_name
    ELSE IF e.component.ty # "absent"
    THEN IF e.component.ty = "dict"
         THEN IF e.comp_binary.ty # "absent" THEN e.comp_binary
              ELSE IF e.comp_type.ty # "absent" THEN e.comp_type
              ELSE Unknown
         ELSE JStr(PyStr(e.component))
    ELSE Unknown

\* lines 580-591
ExtractComponent(e) ==
    IF e.component.ty # "absent"
    THEN IF e.component.ty = "dict"
         THEN IF e.comp_binary.ty # "absent" THEN e.comp_binary
              ELSE IF e.comp_type.ty # "absent" THEN e.comp_type
              ELSE Unknown
         ELSE JStr(PyStr(e.component))
    ELSE IF e.service_name.ty # "absent" THEN e.service_name
    ELSE Unknown

\* lines 593-596
ExtractMessage(e) == IF e.message.ty = "absent" THEN JStr(<<>>) ELSE e.message

Preview(message) ==
    IF Len(message.s) > PreviewLen
    THEN JStr(SubSeq(message.s, 1, PreviewLen) \o <<".", ".", ".">>)
    ELSE message

\* the call raises: entry.get on a document that is not an object, or
\* len(message) on a message without a length
ProcessRaises(e) == ~e.is_dict \/ ~HasLen(ExtractMessage(e))

process_log_entry(e, line_num, file_name, server_name, tz) ==
    IF ProcessRaises(e)
    THEN NoRecord
    ELSE LET ts == ExtractTimestamp(e, tz)
         IN [raised |-> FALSE,
             raw |-> e,
             line_number |-> line_num,
             file_name |-> file_name,
             server_name |-> server_name,
             timestamp |-> ts.timestamp,
             parsed_timestamp |-> ts.parsed_timestamp,
             level |-> ExtractLevel(e),
             component |-> ExtractComponent(e),
             message |-> Preview(ExtractMessage(e)),
             full_message |-> ExtractMessage(e)]

----------------------------------------------------------------------------
(* ServerGroup *)

\* set.add(v) succeeds
Hashable(v) == v.ty \notin {"list", "dict"}

\* ServerGroup.add_log: the three statements, the two set.add raising
\* TypeError on an unhashable value
add_log(g, processed_log) ==
    LET appended == [g EXCEPT !.logs = Append(@, processed_log)]
        withComponent ==
            [appended EXCEPT !.components = @ \cup {processed_log.component}]
    IN  IF ~Hashable(processed_log.component)
        THEN [raised |-> TRUE, group |-> appended]
        ELSE IF ~Hashable(processed_log.level)
        THEN [raised |-> TRUE, group |-> withComponent]
        ELSE [raised |-> FALSE,
              group |-> [withComponent EXCEPT
                            !.log_levels = @ \cup {processed_log.level}]]

\* ServerGroup.clear
ClearedGroup ==
    [logs |-> <<>>, components |-> {}, log_levels |-> {}, loaded_files |-> {}]

Group ==
    [logs |-> logs, components |-> components, log_levels |-> log_levels,
     loaded_files |-> loaded_files]

SetGroup(g) ==
    /\ logs' = g.logs
    /\ components' = g.components
    /\ log_levels' = g.log_levels
    /\ loaded_files' = g.loaded_files

----------------------------------------------------------------------------
(* list.sort(key=lambda x: x.get('parsed_timestamp', datetime.min)) *)

SortKey(x) == x.parsed_timestamp

\* s with x inserted after every element whose key is not greater
RECURSIVE InsertSorted(_, _)
InsertSorted(s, x) ==
    IF s = <<>> THEN <<x>>
    ELSE IF SortKey(x).t < SortKey(s[Len(s)]).t
         THEN Append(InsertSorted(SubSeq(s, 1, Len(s) - 1), x), s[Len(s)])
         ELSE Append(s, x)

\* the stable sort of a list whose keys are comparable
RECURSIVE SortedByTimestamp(_)
SortedByTimestamp(s) ==
    IF s = <<>> THEN <<>>
    ELSE InsertSorted(SortedByTimestamp(SubSeq(s, 1, Len(s) - 1)), s[Len(s)])

\* the sort compares keys with <, which raises TypeError as soon as an
\* offset-aware key meets an offset-naive one
SortRaises(s) ==
    \E i, j \in DOMAIN s : ~Comparable(SortKey(s[i]), SortKey(s[j]))

\* the length of the longest prefix of s whose keys are comparable
ComparablePrefix(s) ==
    CHOOSE m \in 0..Len(s) :
        /\ \A i, j \in 1..m : Comparable(SortKey(s[i]), SortKey(s[j]))
        /\ m < Len(s) => \E i \in 1..m :
                            ~Comparable(SortKey(s[i]), SortKey(s[m + 1]))

\* what a sort that raised may leave in the list: the elements in their
\* old order, or with the comparable prefix already sorted
AfterFailedSort(s) ==
    {s, SortedByTimestamp(SubSeq(s, 1, ComparablePrefix(s)))
            \o SubSeq(s, ComparablePrefix(s) + 1, Len(s))}

----------------------------------------------------------------------------
(* _load_file_thread *)

\* the lines of a file: blank, not valid JSON, or a JSON document
BlankLine == [kind |-> "blank", doc |-> <<>>]
BadLine == [kind |-> "bad", doc |-> <<>>]
DocLine(d) == [kind |-> "doc", doc |-> d]

Unreadable == [readable |-> FALSE, lines |-> <<>>]
FileOf(lines) == [readable |-> TRUE, lines |-> lines]

\* lines 518-521: f.read().strip() drops the blank lines that lead and trail
\* the content, and split gives one empty line when nothing is left
SplitLines(content) ==
    LET full == {i \in DOMAIN content : content[i].kind # "blank"}
        first == CHOOSE i \in full : \A j \in full : i <= j
        last == CHOOSE i \in full : \A j \in full : j <= i
    IN  IF full = {} THEN <<BlankLine>> ELSE SubSeq(content, first, last)

NewThread(kind, file_name) ==
    [kind |-> kind, file |-> file_name, pc |-> "start", line_num |-> 1,
     new_logs |-> 0]

ServerName == "Server A"

\* lines 524-537 for one line of the file: what becomes of the group, and
\* whether an exception other than JSONDecodeError escaped the loop
LoadLine(g, line, line_num, file_name, tz) ==
    IF line.kind # "doc"
    THEN [raised |-> FALSE, added |-> 0, group |-> g]
    ELSE LET processed_entry ==
                 process_log_entry(line.doc, line_num, file_name, ServerName, tz)
         IN  IF processed_entry.raised
             THEN [raised |-> TRUE, added |-> 0, group |-> g]
             ELSE LET r == add_log(g, processed_entry)
                  IN  [raised |-> r.raised, added |-> 1, group |-> r.group]

----------------------------------------------------------------------------
(* ServerViewer.apply_filters *)

All == <<"All">>

\* c.lower(), for the symbols of the model that have upper-case letters
LowerSymbol(c) ==
    CASE c = "B" -> "b"
      [] c = "Z" -> "z"
      [] c = "ERROR" -> "error"
      [] c = "0001-01-01T00:00:00" -> "0001-01-01t00:00:00"
      [] c = "0001-01-01T03:00:00" -> "0001-01-01t03:00:00"
      [] c = "0001-01-01T10:00:00" -> "0001-01-01t10:00:00"
      [] c = "0001-01-01T10:01:00" -> "0001-01-01t10:01:00"
      [] c = "0001-01-01T10:01:30" -> "0001-01-01t10:01:30"
      [] c = "0001-01-01T10:03:00" -> "0001-01-01t10:03:00"
      [] c = "0001-01-01T10:05:00" -> "0001-01-01t10:05:00"
      [] OTHER -> c

\* s.lower()
Lower(s) == [i \in DOMAIN s |-> LowerSymbol(s[i])]

\* ServerGroup.get_stats; level.lower() raises AttributeError for a level
\* that is not text
get_stats(g) ==
    LET Error(log) == Lower(log.level.s) = <<"error">>
        Warning(log) == Lower(log.level.s) \in {<<"warn">>, <<"warning">>}
    IN  IF \E i \in DOMAIN g.logs : g.logs[i].level.ty # "str"
        THEN [raised |-> TRUE]
        ELSE [raised |-> FALSE,
              total_logs |-> Len(g.logs),
              components |-> Cardinality(g.components),
              files |-> Cardinality(g.loaded_files),
              errors |-> Len(SelectSeq(g.logs, Error)),
              warnings |-> Len(SelectSeq(g.logs, Warning))]

\* p in t
IsSubstring(p, t) ==
    \E i \in 0..(Len(t) - Len(p)) : SubSeq(t, i + 1, i + Len(p)) = p

\* json.dumps of one value
DumpValue(v) ==
    CASE v.ty = "str" -> <<"\"">> \o v.s \o <<"\"">>
      [] v.ty = "null" -> <<"null">>
      [] OTHER -> v.s

DumpField(key, v) ==
    IF v.ty = "absent" THEN <<>> ELSE <<key, ":">> \o DumpValue(v)

\* json.dumps(log['raw'])
Dumps(raw) ==
    <<"{">>
        \o DumpField("@timestamp", raw.ts)
        \o DumpField("log.level", raw.level)
        \o (IF raw.component.ty = "dict"
            THEN <<"component", ":", "{">>
                    \o DumpField("binary", raw.comp_binary)
                    \o DumpField("type", raw.comp_type) \o <<"}">>
            ELSE DumpField("component", raw.component))
        \o DumpField("service.name", raw.service_name)
        \o DumpField("message", raw.message)
        \o DumpField("monitoring", raw.monitoring)
        \o <<"}">>

\* datetime.strptime(s, '%Y-%m-%d %H:%M:%S'): fields need no zero padding
StrpBody == [b \in {"0001-1-1 10:0:0"} |-> 10 * SecondsPerHour]

Strptime(s) ==
    IF Len(s) = 1 /\ s[1] \in DOMAIN StrpBody
    THEN [ok |-> TRUE, dt |-> [aware |-> FALSE, t |-> StrpBody[s[1]]]]
    ELSE [ok |-> FALSE, dt |-> Sentinel]

\* lines 1268-1288 with a malformed string taken as the least instant
\* instead of being dropped
ParseBoundKeepsMalformed(time_str) ==
    LET iso == FromIso(ReplaceZ(time_str))
        strp == Strptime(time_str)
    IN  IF time_str = <<>> THEN [set |-> FALSE, dt |-> Sentinel]
        ELSE IF iso.ok THEN [set |-> TRUE, dt |-> iso.dt]
        ELSE IF strp.ok THEN [set |-> TRUE, dt |-> strp.dt]
        ELSE [set |-> TRUE, dt |-> Sentinel]

\* lines 1268-1288: a time bound, None when the string is empty or does not
\* parse
ParseBound(time_str) ==
    LET iso == FromIso(ReplaceZ(time_str))
        strp == Strptime(time_str)
    IN  IF time_str = <<>> THEN [set |-> FALSE, dt |-> Sentinel]
        ELSE IF iso.ok THEN [set |-> TRUE, dt |-> iso.dt]
        ELSE IF strp.ok THEN [set |-> TRUE, dt |-> strp.dt]
        ELSE [set |-> FALSE, dt |-> Sentinel]

\* the time range test of lines 1304-1308
BelowStart(log, start_time) ==
    start_time.set /\ log.parsed_timestamp.t < start_time.dt.t

AboveEnd(log, end_time) ==
    end_time.set /\ log.parsed_timestamp.t > end_time.dt.t

\* lines 1292-1317 for one record: "raise", "skip" or "keep"
FilterVerdict(log, f) ==
    LET start_time == ParseBound(f.start_time)
        end_time == ParseBound(f.end_time)
        search_term == Lower(f.search_var)
    IN  IF f.component_var # All /\ log.component # JStr(f.component_var)
        THEN "skip"
        ELSE IF f.level_var # All /\ log.level # JStr(f.level_var)
        THEN "skip"
        ELSE IF f.file_var # All /\ <<log.file_name>> # f.file_var
        THEN "skip"
        ELSE IF start_time.set
                /\ ~Comparable(log.parsed_timestamp, start_time.dt)
        THEN "raise"
        ELSE IF BelowStart(log, start_time)
        THEN "skip"
        ELSE IF end_time.set /\ ~Comparable(log.parsed_timestamp, end_time.dt)
        THEN "raise"
        ELSE IF AboveEnd(log, end_time)
        THEN "skip"
        ELSE IF search_term = <<>>
        THEN "keep"
        ELSE IF log.full_message.ty # "str"
        THEN "raise"
        ELSE IF IsSubstring(search_term,
                            Lower(log.full_message.s \o <<" ">> \o Dumps(log.raw)))
        THEN "keep"
        ELSE "skip"

\* the loop of lines 1291-1317 over the records from index i on, out being
\* self.filtered_logs so far; an exception ends the loop
RECURSIVE FilterFrom(_, _, _, _)
FilterFrom(ls, i, f, out) ==
    IF i > Len(ls) THEN [raised |-> FALSE, filtered_logs |-> out]
    ELSE LET verdict == FilterVerdict(ls[i], f)
         IN  IF verdict = "raise" THEN [raised |-> TRUE, filtered_logs |-> out]
             ELSE IF verdict = "keep" THEN FilterFrom(ls, i + 1, f, Append(out, ls[i]))
             ELSE FilterFrom(ls, i + 1, f, out)

apply_filters(ls, f) == FilterFrom(ls, 1, f, <<>>)

----------------------------------------------------------------------------
(* ComparisonEngine.calculate_similarity: difflib.SequenceMatcher(None, a,   *)
(* b).ratio().  No element is junk (isjunk is None) and the texts of the    *)
(* model are shorter than the 200 elements at which difflib starts to set   *)
(* popular elements aside.  A ratio is the fraction [num, den].             *)

Min(m, n) == IF m < n THEN m ELSE n

\* the blocks a[i..i+k-1] = b[j..j+k-1] inside a[alo..ahi] and b[blo..bhi]
Blocks(a, b, alo, ahi, blo, bhi) ==
    {c \in (alo..ahi) \X (blo..bhi) \X (1..Min(ahi - alo + 1, bhi - blo + 1)) :
        /\ c[1] + c[3] - 1 <= ahi
        /\ c[2] + c[3] - 1 <= bhi
        /\ \A d \in 0..(c[3] - 1) : a[c[1] + d] = b[c[2] + d]}

\* SequenceMatcher.find_longest_match: the longest block; of several, the one
\* that starts earliest in a and, of those, earliest in b
Earlier(c, d) ==
    \/ c[3] > d[3]
    \/ c[3] = d[3] /\ c[1] < d[1]
    \/ c[3] = d[3] /\ c[1] = d[1] /\ c[2] <= d[2]

find_longest_match(a, b, alo, ahi, blo, bhi) ==
    LET bs == Blocks(a, b, alo, ahi, blo, bhi)
    IN  CHOOSE c \in bs : \A d \in bs : Earlier(c, d)

\* SequenceMatcher.get_matching_blocks, summed: the longest block, then the
\* same to its left and to its right
RECURSIVE MatchedLength(_, _, _, _, _, _)
MatchedLength(a, b, alo, ahi, blo, bhi) ==
    IF alo > ahi \/ blo > bhi \/ Blocks(a, b, alo, ahi, blo, bhi) = {} THEN 0
    ELSE LET m == find_longest_match(a, b, alo, ahi, blo, bhi)
         IN  m[3] + MatchedLength(a, b, alo, m[1] - 1, blo, m[2] - 1)
                  + MatchedLength(a, b, m[1] + m[3], ahi, m[2] + m[3], bhi)

\* SequenceMatcher.ratio with 0.0 for two empty texts
RatioEmptyIsZero(a, b) ==
    [num |-> 2 * MatchedLength(a, b, 1, Len(a), 1, Len(b)),
     den |-> IF Len(a) + Len(b) = 0 THEN 1 ELSE Len(a) + Len(b)]

\* SequenceMatcher.ratio: 2.0 * matches / length, 1.0 when length is 0
calculate_similarity(str1, str2) ==
    IF Len(str1) + Len(str2) = 0 THEN [num |-> 1, den |-> 1]
    ELSE [num |-> 2 * MatchedLength(str1, str2, 1, Len(str1), 1, Len(str2)),
          den |-> Len(str1) + Len(str2)]

\* comparisons of fractions with positive denominators
AtLeast(p, q) == p.num * q.den >= q.num * p.den
SameRatio(p, q) == p.num * q.den = q.num * p.den

----------------------------------------------------------------------------
(* ComparisonEngine.find_similar_messages and find_timeline_correlations.   *)
(* A time window is given in seconds (time_window_minutes * 60); a call      *)
(* yields [raised, correlations].                                           *)

SecondsPerMinute == 60

Abs(n) == IF n < 0 THEN 0 - n ELSE n

\* log['level'].lower() raises AttributeError unless the level is a string
LevelLower(log) == Lower(log.level.s)

ImportantLevels == {<<"error">>, <<"warn">>, <<"warning">>}

\* lines 61-62
Important(ls) ==
    LET Test(log) == LevelLower(log) \in ImportantLevels IN SelectSeq(ls, Test)

\* "skip", "raise" or "keep" for one pair of records, lines 65-83
PairVerdict(log1, log2, similarity_threshold, window_seconds) ==
    IF log1.parsed_timestamp = Sentinel \/ log2.parsed_timestamp = Sentinel
    THEN "skip"
    ELSE IF ~Comparable(log1.parsed_timestamp, log2.parsed_timestamp)
    THEN "raise"
    ELSE IF Abs(log1.parsed_timestamp.t - log2.parsed_timestamp.t)
                > window_seconds
    THEN "skip"
    ELSE IF log1.full_message.ty # "str" \/ log2.full_message.ty # "str"
    THEN "raise"
    ELSE IF AtLeast(calculate_similarity(Lower(log1.full_message.s),
                                         Lower(log2.full_message.s)),
                    similarity_threshold)
    THEN "keep"
    ELSE "skip"

\* lines 84-90
MessageSimilarity(log1, log2) ==
    [log1 |-> log1,
     log2 |-> log2,
     similarity |-> calculate_similarity(Lower(log1.full_message.s),
                                         Lower(log2.full_message.s)),
     time_diff_minutes |->
        [num |-> Abs(log1.parsed_timestamp.t - log2.parsed_timestamp.t),
         den |-> SecondsPerMinute],
     correlation_type |-> "message_similarity"]

\* the loops of lines 64-90 from pair number p on (pairs numbered from 0,
\* log2 running fastest), out being correlations so far
RECURSIVE SimilarFrom(_, _, _, _, _, _)
SimilarFrom(l1, l2, similarity_threshold, window_seconds, p, out) ==
    IF p >= Len(l1) * Len(l2) THEN [raised |-> FALSE, correlations |-> out]
    ELSE LET log1 == l1[(p \div Len(l2)) + 1]
             log2 == l2[(p % Len(l2)) + 1]
             verdict == PairVerdict(log1, log2, similarity_threshold,
                                    window_seconds)
         IN  IF verdict = "raise" THEN [raised |-> TRUE, correlations |-> <<>>]
             ELSE SimilarFrom(l1, l2, similarity_threshold, window_seconds,
                              p + 1,
                              IF verdict = "keep"
                              THEN Append(out, MessageSimilarity(log1, log2))
                              ELSE out)

\* sorted(..., reverse=True) with the entries of equal similarity put last
\* first
RECURSIVE SortedBySimilarityTiesReversed(_)
SortedBySimilarityTiesReversed(s) ==
    IF s = <<>> THEN <<>>
    ELSE LET n == Len(s)
             rest == SortedBySimilarityTiesReversed(SubSeq(s, 1, n - 1))
             Before(c) == ~AtLeast(s[n].similarity, c.similarity)
             k == Len(SelectSeq(rest, Before))
         IN  SubSeq(rest, 1, k) \o <<s[n]>> \o SubSeq(rest, k + 1, Len(rest))

\* line 92: sorted(correlations, key=similarity, reverse=True), which keeps
\* entries of equal similarity in their order
RECURSIVE SortedBySimilarity(_)
SortedBySimilarity(s) ==
    IF s = <<>> THEN <<>>
    ELSE LET n == Len(s)
             rest == SortedBySimilarity(SubSeq(s, 1, n - 1))
             Before(c) == AtLeast(c.similarity, s[n].similarity)
             k == Len(SelectSeq(rest, Before))
         IN  SubSeq(rest, 1, k) \o <<s[n]>> \o SubSeq(rest, k + 1, Len(rest))

LevelsAreText(ls) == \A i \in DOMAIN ls : ls[i].level.ty = "str"

find_similar_messages(logs1, logs2, similarity_threshold, window_seconds) ==
    IF ~LevelsAreText(logs1) \/ ~LevelsAreText(logs2)
    THEN [raised |-> TRUE, correlations |-> <<>>]
    ELSE LET found == SimilarFrom(Important(logs1), Important(logs2),
                                  similarity_threshold, window_seconds, 0, <<>>)
         IN  [raised |-> found.raised,
              correlations |-> SortedBySimilarity(found.correlations)]

\* line 100: int(time_window_minutes), for a window that is not negative
time_window_int(window_seconds) == window_seconds \div SecondsPerMinute

\* lines 103-106, with the bucket size of one minute
get_time_bucket(timestamp) ==
    [aware |-> timestamp.aware,
     t |-> timestamp.t - (timestamp.t % SecondsPerMinute)]

\* lines 112-120: the keys of the dict of buckets, in insertion order
RECURSIVE BucketKeys(_)
BucketKeys(ls) ==
    IF ls = <<>> THEN <<>>
    ELSE LET n == Len(ls)
             keys == BucketKeys(SubSeq(ls, 1, n - 1))
             bucket == get_time_bucket(ls[n].parsed_timestamp)
         IN  IF ls[n].parsed_timestamp = Sentinel THEN keys
             ELSE IF \E i \in DOMAIN keys : keys[i] = bucket THEN keys
             ELSE Append(keys, bucket)

\* buckets[bucket]
BucketLogs(ls, bucket) ==
    LET Test(log) ==
            /\ log.parsed_timestamp # Sentinel
            /\ get_time_bucket(log.parsed_timestamp) = bucket
    IN  SelectSeq(ls, Test)

HasBucket(ls, bucket) == BucketLogs(ls, bucket) # <<>>

\* lines 132-133
Errors(ls) ==
    LET Test(log) == LevelLower(log) = <<"error">> IN SelectSeq(ls, Test)

\* lines 136-144
TimelineCorrelation(bucket_time, bucket1_logs, bucket2_logs, minutes_offset) ==
    [time_bucket |-> bucket_time,
     server1_events |-> Len(bucket1_logs),
     server2_events |-> Len(bucket2_logs),
     server1_errors |-> Len(Errors(bucket1_logs)),
     server2_errors |-> Len(Errors(bucket2_logs)),
     time_offset_minutes |-> minutes_offset,
     correlation_type |-> "timeline_correlation"]

\* the loops of lines 123-144 from step p on (steps numbered from 0, the
\* offset running fastest), with the offsets taken from the greatest down
RECURSIVE TimelineFromOffsetsDescending(_, _, _, _, _)
TimelineFromOffsetsDescending(logs1, logs2, w, p, out) ==
    LET keys == BucketKeys(logs1)
    IN  IF p >= Len(keys) * (2 * w + 1)
        THEN [raised |-> FALSE, correlations |-> out]
        ELSE LET bucket_time == keys[(p \div (2 * w + 1)) + 1]
                 minutes_offset == w - (p % (2 * w + 1))
                 check_bucket ==
                    [aware |-> bucket_time.aware,
                     t |-> bucket_time.t + minutes_offset * SecondsPerMinute]
                 bucket1_logs == BucketLogs(logs1, bucket_time)
                 bucket2_logs == BucketLogs(logs2, check_bucket)
             IN  IF check_bucket.t < 0
                 THEN [raised |-> TRUE, correlations |-> <<>>]
                 ELSE IF ~HasBucket(logs2, check_bucket)
                 THEN TimelineFromOffsetsDescending(logs1, logs2, w, p + 1, out)
                 ELSE IF ~LevelsAreText(bucket1_logs)
                            \/ ~LevelsAreText(bucket2_logs)
                 THEN [raised |-> TRUE, correlations |-> <<>>]
                 ELSE TimelineFromOffsetsDescending(logs1, logs2, w, p + 1,
                        IF Errors(bucket1_logs) # <<>>
                                /\ Errors(bucket2_logs) # <<>>
                        THEN Append(out,
                                TimelineCorrelation(bucket_time, bucket1_logs,
                                    bucket2_logs, minutes_offset))
                        ELSE out)

\* the loops of lines 123-144 from step p on (steps numbered from 0, the
\* offset running fastest from -w to w), out being correlations so far;
\* line 126 raises OverflowError below datetime.min
RECURSIVE TimelineFrom(_, _, _, _, _)
TimelineFrom(logs1, logs2, w, p, out) ==
    LET keys == BucketKeys(logs1)
    IN  IF p >= Len(keys) * (2 * w + 1)
        THEN [raised |-> FALSE, correlations |-> out]
        ELSE LET bucket_time == keys[(p \div (2 * w + 1)) + 1]
                 minutes_offset == (p % (2 * w + 1)) - w
                 check_bucket ==
                    [aware |-> bucket_time.aware,
                     t |-> bucket_time.t + minutes_offset * SecondsPerMinute]
                 bucket1_logs == BucketLogs(logs1, bucket_time)
                 bucket2_logs == BucketLogs(logs2, check_bucket)
             IN  IF check_bucket.t < 0
                 THEN [raised |-> TRUE, correlations |-> <<>>]
                 ELSE IF ~HasBucket(logs2, check_bucket)
                 THEN TimelineFrom(logs1, logs2, w, p + 1, out)
                 ELSE IF ~LevelsAreText(bucket1_logs)
                            \/ ~LevelsAreText(bucket2_logs)
                 THEN [raised |-> TRUE, correlations |-> <<>>]
                 ELSE TimelineFrom(logs1, logs2, w, p + 1,
                        IF Errors(bucket1_logs) # <<>>
                                /\ Errors(bucket2_logs) # <<>>
                        THEN Append(out,
                                TimelineCorrelation(bucket_time, bucket1_logs,
                                    bucket2_logs, minutes_offset))
                        ELSE out)

find_timeline_correlations(logs1, logs2, window_seconds) ==
    TimelineFrom(logs1, logs2, time_window_int(window_seconds), 0, <<>>)

----------------------------------------------------------------------------
(* ServerViewer's analyzers.  The analysis pane is a sequence of chunks of   *)
(* text, [kind, of, lines]: what the chunk is, the analyzer or component it  *)
(* belongs to, and the lines of it that the model follows.  An analyzer      *)
(* yields [raised, text].                                                    *)

Chunk(kind, of) == [kind |-> kind, of |-> of, lines |-> <<>>]

TimelineAnalysis == "Timeline Analysis"
ErrorAnalysis == "Error Analysis"
HealthAnalysis == "Health Analysis"
ComponentAnalysis == "Component Analysis"

\* the instants of the records that are not the sentinel
RealTimestamps(ls) ==
    LET Test(log) == log.parsed_timestamp # Sentinel
        real == SelectSeq(ls, Test)
    IN  [i \in DOMAIN real |-> real[i].parsed_timestamp]

\* a sort of instants raises TypeError when the two kinds are mixed
MixedKinds(ts) == \E i, j \in DOMAIN ts : ~Comparable(ts[i], ts[j])

\* convert_timezone raises OverflowError for one of the instants
ConversionRaises(ts, tz) == \E i \in DOMAIN ts : ~convert_timezone(ts[i], tz).ok

\* sorted() over component names raises TypeError when their types differ
KeysOf(ls) == {ls[i].component : i \in DOMAIN ls}
KeySortRaises(keys) == \E k1, k2 \in keys : k1.ty # k2.ty

\* a value that cannot be a key of a Counter
Unhashable(v) == v.ty \in {"list", "dict"}

\* all_timestamps.sort(), for instants of one kind
RECURSIVE SortedInstants(_)
SortedInstants(ts) ==
    IF ts = <<>> THEN <<>>
    ELSE LET n == Len(ts)
             rest == SortedInstants(SubSeq(ts, 1, n - 1))
             NotAfterLast(x) == x.t <= ts[n].t
             k == Len(SelectSeq(rest, NotAfterLast))
         IN  SubSeq(rest, 1, k) \o <<ts[n]>> \o SubSeq(rest, k + 1, Len(rest))

\* timedelta(minutes=2) of line 1511
GapMinutes == 2

\* the 'Gap:' lines of lines 1509-1516: one for each pair of neighbours of
\* the sorted instants that lie more than the limit apart
RECURSIVE GapsFrom(_, _, _, _)
GapsFrom(sorted, tz, i, out) ==
    IF i > Len(sorted) THEN out
    ELSE LET gap == sorted[i].t - sorted[i - 1].t
             line == [gap_start |-> convert_timezone(sorted[i - 1], tz).dt,
                      gap_end |-> convert_timezone(sorted[i], tz).dt,
                      tz_name |-> get_timezone_name(tz),
                      gap |-> gap]
         IN  GapsFrom(sorted, tz, i + 1,
                      IF gap > GapMinutes * SecondsPerMinute
                      THEN Append(out, line) ELSE out)

\* lines 1470-1535
run_timeline_analysis(text, ls, tz) ==
    LET title == <<Chunk("title", TimelineAnalysis)>>
        all_timestamps == RealTimestamps(ls)
        gaps == [Chunk("gaps", TimelineAnalysis) EXCEPT
                    !.lines = GapsFrom(SortedInstants(all_timestamps), tz, 2,
                                       <<>>)]
    IN  IF ls = <<>> THEN [raised |-> FALSE, text |-> text]
        ELSE IF \E i \in DOMAIN ls :
                    /\ ls[i].parsed_timestamp # Sentinel
                    /\ Unhashable(ls[i].component)
        THEN [raised |-> TRUE, text |-> title]
        ELSE IF all_timestamps = <<>>
        THEN [raised |-> FALSE,
              text |-> Append(title, Chunk("no timestamps", TimelineAnalysis))]
        ELSE IF MixedKinds(all_timestamps)
                    \/ ConversionRaises(all_timestamps, tz)
        THEN [raised |-> TRUE, text |-> title]
        ELSE IF KeySortRaises(KeysOf(ls))
        THEN [raised |-> TRUE,
              text |-> title \o <<Chunk("overview", TimelineAnalysis), gaps>>]
        ELSE [raised |-> FALSE,
              text |-> title \o <<Chunk("overview", TimelineAnalysis), gaps,
                                  Chunk("activity", TimelineAnalysis)>>]

\* the records that lines 1561-1564 put in error_messages
Counted(ls) ==
    LET Test(log) == LevelLower(log) \in ImportantLevels IN SelectSeq(ls, Test)

\* lines 1537-1606
run_error_analysis(text, ls, tz) ==
    LET title == <<Chunk("title", ErrorAnalysis)>>
        summary == title \o <<Chunk("summary", ErrorAnalysis),
                              Chunk("levels", ErrorAnalysis)>>
    IN  IF ls = <<>> THEN [raised |-> FALSE, text |-> text]
        ELSE IF ~LevelsAreText(ls)
        THEN [raised |-> TRUE, text |-> title]
        ELSE IF \E i \in DOMAIN ls :
                    \/ Unhashable(ls[i].component)
                    \/ ls[i].full_message.ty = "dict"
        THEN [raised |-> TRUE, text |-> title]
        ELSE IF \E i \in DOMAIN Counted(ls) :
                    Unhashable(Counted(ls)[i].full_message)
        THEN [raised |-> TRUE, text |-> title]
        ELSE IF KeySortRaises(KeysOf(ls))
        THEN [raised |-> TRUE, text |-> summary]
        ELSE IF Counted(ls) = <<>>
        THEN [raised |-> FALSE,
              text |-> Append(summary, Chunk("by component", ErrorAnalysis))]
        ELSE IF RealTimestamps(Counted(ls)) = <<>>
        THEN [raised |-> FALSE,
              text |-> summary \o <<Chunk("by component", ErrorAnalysis),
                                    Chunk("common", ErrorAnalysis)>>]
        ELSE IF MixedKinds(RealTimestamps(Counted(ls)))
                    \/ ConversionRaises(RealTimestamps(Counted(ls)), tz)
        THEN [raised |-> TRUE,
              text |-> summary \o <<Chunk("by component", ErrorAnalysis),
                                    Chunk("common", ErrorAnalysis)>>]
        ELSE [raised |-> FALSE,
              text |-> summary \o <<Chunk("by component", ErrorAnalysis),
                                    Chunk("common", ErrorAnalysis),
                                    Chunk("recent", ErrorAnalysis)>>]

\* raw['monitoring'] of a document that carries beat.memstats only:
\* {"metrics": {"beat": {"memstats": {"memory_alloc": v}}}}, v absent when
\* memstats has no such key
MemStats(v) == [ty |-> "dict", s |-> <<"{metrics}">>, memory_alloc |-> v]

\* a JSON number, by its value
Number(n) == [ty |-> "num", s |-> <<>>, n |-> n]

BytesPerMB == 1024 * 1024

\* line 1627 raises TypeError: 'metrics' in a value that is no container
MonitoringRaises(log) == log.raw.monitoring.ty \in {"num", "null"}

\* memory_alloc of lines 1637-1639, and its test against 0 raising TypeError
MemoryAlloc(log) ==
    LET m == log.raw.monitoring
    IN  IF m.ty = "dict"
        THEN IF m.memory_alloc.ty = "absent" THEN Number(0) ELSE m.memory_alloc
        ELSE Number(0)

MemoryRaises(log) == MemoryAlloc(log).ty # "num"

\* memory_values: memory_alloc / 1024 / 1024 of the records where it is
\* positive, each as the fraction [num, den]
RECURSIVE memory_values(_)
memory_values(ls) ==
    IF ls = <<>> THEN <<>>
    ELSE LET n == Len(ls)
             rest == memory_values(SubSeq(ls, 1, n - 1))
             memory_alloc == MemoryAlloc(ls[n]).n
         IN  IF memory_alloc > 0
             THEN Append(rest, [num |-> memory_alloc, den |-> BytesPerMB])
             ELSE rest

\* the sum of value - limit over the values, times their denominator: the
\* mean is above the limit exactly when their excess over it is positive
RECURSIVE Excess(_, _)
Excess(values, limit) ==
    IF values = <<>> THEN 0
    ELSE LET n == Len(values)
         IN  (values[n].num - limit * values[n].den)
                + Excess(SubSeq(values, 1, n - 1), limit)

\* statistics.mean(values) >= limit
MeanAtLeast(values, limit) == Excess(values, limit) >= 0

\* statistics.mean(values) > limit
MeanAbove(values, limit) == Excess(values, limit) > 0

\* the mean memory, in MB, above which lines 1686 and 1705 flag the usage
HighMemoryMB == 500

MemoryUsage == "Memory Usage"
HighMemoryUsage == "High memory usage"

\* analyze_metric(memory_values, "Memory Usage", "MB"), lines 1665-1693
analyze_metric(values, name) ==
    [name |-> name,
     data |-> values # <<>>,
     flagged |-> /\ values # <<>>
                 /\ name = MemoryUsage
                 /\ MeanAbove(values, HighMemoryMB)]

\* issues of lines 1703-1712
Issues(values) ==
    IF values # <<>> /\ MeanAbove(values, HighMemoryMB)
    THEN <<HighMemoryUsage>> ELSE <<>>

\* lines 1608-1717, for records whose monitoring document, if any, carries
\* beat.memstats only: the other four metrics have no data
run_health_analysis(text, ls) ==
    LET title == <<Chunk("title", HealthAnalysis)>>
        values == memory_values(ls)
    IN  IF ls = <<>> THEN [raised |-> FALSE, text |-> text]
        ELSE IF \E i \in DOMAIN ls : MonitoringRaises(ls[i]) \/ MemoryRaises(ls[i])
        THEN [raised |-> TRUE, text |-> title]
        ELSE [raised |-> FALSE,
              text |-> title \o
                  <<[Chunk("metrics", HealthAnalysis) EXCEPT
                        !.lines = <<analyze_metric(values, MemoryUsage)>>],
                    [Chunk("assessment", HealthAnalysis) EXCEPT
                        !.lines = Issues(values)]>>]

\* the order of sorted() over the texts of the model
TextRank(v) ==
    CASE v = <<"error">> -> 1
      [] v = <<"filebeat">> -> 2
      [] v = <<"metricbeat">> -> 3
      [] v = <<"started">> -> 4
      [] v = <<"stopped">> -> 5
      [] v = <<"unknown">> -> 6
      [] OTHER -> 0

\* lines 1762-1769: the status change a message stands for, <<>> if none
StatusOf(message) ==
    IF IsSubstring(<<"started">>, message) \/ IsSubstring(<<"starting">>, message)
    THEN <<"started">>
    ELSE IF IsSubstring(<<"stopped">>, message)
                \/ IsSubstring(<<"stopping">>, message)
    THEN <<"stopped">>
    ELSE IF IsSubstring(<<"failed">>, message) \/ IsSubstring(<<"error">>, message)
    THEN <<"error">>
    ELSE <<>>

\* stats['status_changes'] of one component: <<status, timestamp>> in the
\* order of the records
StatusChanges(ls, component) ==
    LET Test(log) ==
            /\ log.component = component
            /\ StatusOf(Lower(log.full_message.s)) # <<>>
        changing == SelectSeq(ls, Test)
    IN  [i \in DOMAIN changing |->
            <<StatusOf(Lower(changing[i].full_message.s)),
              changing[i].parsed_timestamp>>]

\* tuple comparison: c < d
ChangeBefore(c, d) ==
    \/ TextRank(c[1]) < TextRank(d[1])
    \/ c[1] = d[1] /\ c[2].t < d[2].t

\* sorted(stats['status_changes']): tuples in ascending order, equal ones in
\* their old order
RECURSIVE SortedChanges(_)
SortedChanges(s) ==
    IF s = <<>> THEN <<>>
    ELSE LET n == Len(s)
             rest == SortedChanges(SubSeq(s, 1, n - 1))
             NotAfterNew(c) == ~ChangeBefore(s[n], c)
             k == Len(SelectSeq(rest, NotAfterNew))
         IN  SubSeq(rest, 1, k) \o <<s[n]>> \o SubSeq(rest, k + 1, Len(rest))

\* the sort compares the timestamps of two changes of the same status with <
ChangeSortRaises(s) ==
    \E i, j \in DOMAIN s : s[i][1] = s[j][1] /\ ~Comparable(s[i][2], s[j][2])

ShownChanges == 5

\* [-5:]
LastShown(s) ==
    IF Len(s) <= ShownChanges THEN s
    ELSE SubSeq(s, Len(s) - ShownChanges + 1, Len(s))

\* lines 1802-1806: the status changes listed for a component
ListedChanges(ls, component) ==
    LET Test(c) == c[2] # Sentinel
    IN  SelectSeq(LastShown(SortedChanges(StatusChanges(ls, component))), Test)

\* lines 1741-1769 raise on a record
TallyRaises(ls) ==
    \/ ~LevelsAreText(ls)
    \/ \E i \in DOMAIN ls :
          \/ Unhashable(ls[i].component)
          \/ ls[i].full_message.ty # "str"
    \/ \E i, j \in DOMAIN ls :
          /\ ls[i].component = ls[j].component
          /\ ls[i].parsed_timestamp # Sentinel
          /\ ls[j].parsed_timestamp # Sentinel
          /\ ~Comparable(ls[i].parsed_timestamp, ls[j].parsed_timestamp)

\* the component names in the order of sorted()
RECURSIVE SortedKeys(_)
SortedKeys(keys) ==
    IF keys = {} THEN <<>>
    ELSE LET least == CHOOSE k \in keys :
                        \A o \in keys : TextRank(k.s) <= TextRank(o.s)
         IN  <<least>> \o SortedKeys(keys \ {least})

\* lines 1772-1808 from the i-th component on
RECURSIVE DisplayFrom(_, _, _, _, _)
DisplayFrom(text, ls, tz, keys, i) ==
    IF i > Len(keys) THEN [raised |-> FALSE, text |-> text]
    ELSE LET component == keys[i]
             Mine(log) == log.component = component
             seen == RealTimestamps(SelectSeq(ls, Mine))
             changes == StatusChanges(ls, component)
             listed == ListedChanges(ls, component)
             listed_times == [j \in DOMAIN listed |-> listed[j][2]]
         IN  IF ConversionRaises(seen, tz) \/ ChangeSortRaises(changes)
                    \/ ConversionRaises(listed_times, tz)
             THEN [raised |-> TRUE,
                   text |-> Append(text, Chunk("component", component.s))]
             ELSE DisplayFrom(
                    Append(text, [kind |-> "component", of |-> component.s,
                                  lines |-> listed]),
                    ls, tz, keys, i + 1)

\* lines 1719-1808
run_component_analysis(text, ls, tz) ==
    LET title == <<Chunk("title", ComponentAnalysis)>>
    IN  IF ls = <<>> THEN [raised |-> FALSE, text |-> text]
        ELSE IF TallyRaises(ls) \/ KeySortRaises(KeysOf(ls))
        THEN [raised |-> TRUE, text |-> title]
        ELSE DisplayFrom(title, ls, tz, SortedKeys(KeysOf(ls)), 1)

\* the analyzers of lines 1866-1871, in order
Analyses == <<TimelineAnalysis, ErrorAnalysis, HealthAnalysis, ComponentAnalysis>>

\* analysis_func()
RunAnalysis(name, text, ls, tz) ==
    CASE name = TimelineAnalysis -> run_timeline_analysis(text, ls, tz)
      [] name = ErrorAnalysis -> run_error_analysis(text, ls, tz)
      [] name = HealthAnalysis -> run_health_analysis(text, ls)
      [] name = ComponentAnalysis -> run_component_analysis(text, ls, tz)

\* the loop of lines 1873-1880 from the i-th analyzer on; ran tells of each
\* analyzer run so far whether it raised
RECURSIVE AnalysesFrom(_, _, _, _, _)
AnalysesFrom(text, ls, tz, i, ran) ==
    IF i > Len(Analyses) THEN [raised |-> FALSE, text |-> text, ran |-> ran]
    ELSE LET name == Analyses[i]
             r == RunAnalysis(name, Append(text, Chunk("banner", name)), ls, tz)
         IN  AnalysesFrom(
                IF r.raised THEN Append(r.text, Chunk("error", name)) ELSE r.text,
                ls, tz, i + 1,
                Append(ran, [name |-> name, raised |-> r.raised]))

ReportName == "Report"

\* line 1828
error_count(ls) ==
    LET Error(log) == Lower(log.level.s) = <<"error">>
    IN  Len(SelectSeq(ls, Error))

\* line 1829
warning_count(ls) ==
    LET Warning(log) == Lower(log.level.s) \in {<<"warn">>, <<"warning">>}
    IN  Len(SelectSeq(ls, Warning))

OutageMinutes == 5

\* lines 1840-1844: the consecutive timestamps more than 5 minutes apart
significant_gaps(timestamps) ==
    Cardinality({i \in 2..Len(timestamps) :
                    timestamps[i].t - timestamps[i - 1].t
                        > OutageMinutes * SecondsPerMinute})

ManyWarnings == 10

Healthy == "HEALTHY"
IssuesDetected == "ISSUES DETECTED"
WarningsPresent == "WARNINGS PRESENT"

\* lines 1851-1857
OverallStatus(ls) ==
    LET gaps == significant_gaps(SortedInstants(RealTimestamps(ls)))
    IN  IF error_count(ls) = 0 /\ warning_count(ls) < ManyWarnings /\ gaps = 0
        THEN Healthy
        ELSE IF error_count(ls) > 0 \/ gaps > 0 THEN IssuesDetected
        ELSE WarningsPresent

\* lines 1810-1883; a call on an empty group changes nothing.  verdicts are
\* the OVERALL STATUS lines the call inserts: the line is part of the
\* executive summary, which is written only when some record has a real
\* timestamp (line 1834)
generate_report(text, ls, tz) ==
    LET header == <<Chunk("header", ReportName)>>
        verdicts ==
            IF RealTimestamps(ls) = <<>> THEN <<>>
            ELSE <<OverallStatus(ls)>>
        summary ==
            IF RealTimestamps(ls) = <<>> THEN <<>>
            ELSE <<[kind |-> "summary", of |-> ReportName,
                    lines |-> verdicts]>>
    IN  IF ls = <<>>
        THEN [raised |-> FALSE, text |-> text, ran |-> <<>>, verdicts |-> <<>>]
        ELSE IF ~LevelsAreText(ls) \/ MixedKinds(RealTimestamps(ls))
        THEN [raised |-> TRUE, text |-> header, ran |-> <<>>,
              verdicts |-> <<>>]
        ELSE AnalysesFrom(header \o summary \o <<Chunk("detail", ReportName)>>,
                          ls, tz, 1, <<>>)
                @@ [verdicts |-> verdicts]

----------------------------------------------------------------------------
(* The normalizer on its own: one document, one selected display zone *)

TimestampStrings ==
    {<<>>, <<"not-a-date">>}
        \cup {<<b>> : b \in {"0001-01-01T03:00:00", "0001-01-01T10:00:00"}}
        \cup {<<b, "Z">> : b \in {"0001-01-01T03:00:00", "0001-01-01T10:00:00"}}

TimestampValues ==
    {JAbsent, JNull, JNum(<<"5">>), JList} \cup {JStr(s) : s \in TimestampStrings}

LevelValues == {JAbsent, JNull, JStr(<<>>), JStr(<<"error">>)}

BinaryValues == {JAbsent, JNull, JStr(<<>>), JStr(<<"metricbeat">>)}

TypeValues == {JAbsent, JStr(<<>>), JStr(<<"log">>)}

ScalarComponents ==
    {JAbsent, JNull, JNum(<<"5">>), JList, JStr(<<>>), JStr(<<"filebeat">>)}

ServiceValues == {JAbsent, JStr(<<>>), JStr(<<"svc">>)}

LongMessage == [i \in 1..(PreviewLen + 1) |-> "x"]

MessageValues ==
    {JAbsent, JNull, JNum(<<"5">>), JList, JStr(<<>>), JStr(<<"Boom">>),
     JStr(LongMessage)}

Zones == {"UTC", "Eastern (EDT)", "Pacific (PST)"}

Doc(ts, level, component, comp_binary, comp_type, service_name, message) ==
    [is_dict |-> TRUE, ts |-> ts, level |-> level, component |-> component,
     comp_binary |-> comp_binary, comp_type |-> comp_type,
     service_name |-> service_name, message |-> message,
     monitoring |-> JAbsent]

\* a line that decodes to a JSON value that is not an object
NotADict ==
    [is_dict |-> FALSE, ts |-> JAbsent, level |-> JAbsent,
     component |-> JAbsent, comp_binary |-> JAbsent, comp_type |-> JAbsent,
     service_name |-> JAbsent, message |-> JAbsent, monitoring |-> JAbsent]

Documents ==
    {NotADict}
        \cup {Doc(ts, lv, c, JAbsent, JAbsent, sv, m) :
                ts \in TimestampValues, lv \in LevelValues,
                c \in ScalarComponents, sv \in ServiceValues,
                m \in MessageValues}
        \cup {Doc(ts, lv, JDict, b, ty, sv, m) :
                ts \in TimestampValues, lv \in LevelValues,
                b \in BinaryValues, ty \in TypeValues,
                sv \in ServiceValues, m \in MessageValues}

GroupEmpty ==
    /\ logs = <<>>
    /\ components = {}
    /\ log_levels = {}
    /\ loaded_files = {}

NoFilters ==
    [component_var |-> <<"All">>, level_var |-> <<"All">>,
     file_var |-> <<"All">>, search_var |-> <<>>,
     start_time |-> <<>>, end_time |-> <<>>]

NotApplied == [applied |-> FALSE, raised |-> FALSE]

ViewIdle ==
    /\ filters = NoFilters
    /\ filtered_logs = <<>>
    /\ view = NotApplied

\* no ComparisonEngine call made, nothing in the analysis pane
EngineIdle == [called |-> FALSE]
NoReport == [called |-> FALSE]

\* no add_log or clear call has been made on the group
NoCalls ==
    [add_log |-> [pc |-> "idle", made |-> 0, processed_log |-> NoRecord],
     clear |-> [pc |-> "idle", made |-> 0]]

\* the text 'Server <letter>'
ServerKey(letter) == <<"Server", letter>>

Comparison == <<"Comparison">>

\* a tab of main_notebook: the frame it shows, named by the key of the
\* server it was made for, and its text
Tab(frame, text) == [frame |-> frame, text |-> text]

\* MultiServerLogViewer.__init__, lines 155-170: the Comparison tab, then
\* add_server_tab('A') and add_server_tab('B')
AppStarted ==
    [tabs |-> <<Tab(ServerKey("A"), ServerKey("A")),
                Tab(ServerKey("B"), ServerKey("B")),
                Tab(Comparison, Comparison)>>,
     server_groups |-> {ServerKey("A"), ServerKey("B")},
     server_display_names |->
        [k \in {ServerKey("A"), ServerKey("B")} |-> k],
     server_viewers |-> {ServerKey("A"), ServerKey("B")},
     server_frames |-> {ServerKey("A"), ServerKey("B")},
     next_server_letter |-> "C"]

AppIdle ==
    /\ calls = NoCalls
    /\ app = AppStarted

CallsIdle ==
    /\ engine = EngineIdle
    /\ analysis_text = <<>>
    /\ report = NoReport

InitNorm ==
    /\ GroupEmpty
    /\ threads = <<>>
    /\ files = <<>>
    /\ ViewIdle
    /\ timezone_var \in Zones
    /\ entry \in Documents
    /\ processed = Idle
    /\ AppIdle
    /\ CallsIdle

Normalize ==
    /\ processed = Idle
    /\ processed' = process_log_entry(entry, 1, "a.log", "Server A", timezone_var)
    /\ UNCHANGED <<groupVars, viewVars, threads, files, timezone_var, entry,
                   callVars, appVars>>

NextNorm == Normalize

SpecNorm == InitNorm /\ [][NextNorm]_vars

Normalized == processed # Idle /\ ~processed.raised

----------------------------------------------------------------------------
(* Claims about the normalizer *)

\* C5: process_log_entry returns a record and never raises, whatever the
\* JSON type of the fields of the document.
C5_NeverRaises == processed # Idle /\ entry.is_dict => ~processed.raised

\* no @timestamp, or an empty one (null, the empty string)
TimestampMissing(e) == e.ts.ty \in {"absent", "null"} \/ e.ts = JStr(<<>>)

TimestampParses(e) ==
    e.ts.ty = "str" /\ FromIso(ReplaceZ(e.ts.s)).ok

\* C6: an absent timestamp gives the sentinel and 'N/A', an unparseable one
\* the sentinel and the raw string; a timestamp that parses gives that
\* instant, which is not the sentinel, and the sentinel compares strictly
\* less than it.
C6_SentinelContract ==
    Normalized =>
        /\ TimestampMissing(entry) =>
              /\ processed.parsed_timestamp = Sentinel
              /\ processed.timestamp = Verbatim(JStr(<<"N/A">>))
        /\ ~TimestampMissing(entry) /\ ~TimestampParses(entry) =>
              /\ processed.parsed_timestamp = Sentinel
              /\ processed.timestamp = Verbatim(entry.ts)
        /\ TimestampParses(entry) =>
              /\ processed.parsed_timestamp = FromIso(ReplaceZ(entry.ts.s)).dt
              /\ processed.parsed_timestamp # Sentinel
              /\ Comparable(Sentinel, processed.parsed_timestamp)
              /\ Sentinel.t < processed.parsed_timestamp.t

Present(v) == v.ty # "absent"

\* C7: the component is component.binary, else component.type, else
\* 'unknown' when 'component' is an object; the string form of 'component'
\* when it is present and not an object; else service.name; else 'unknown'.
C7_ComponentPriority ==
    Normalized =>
        /\ entry.component.ty = "dict" /\ Present(entry.comp_binary) =>
              processed.component = entry.comp_binary
        /\ entry.component.ty = "dict" /\ ~Present(entry.comp_binary)
              /\ Present(entry.comp_type) =>
              processed.component = entry.comp_type
        /\ entry.component.ty = "dict" /\ ~Present(entry.comp_binary)
              /\ ~Present(entry.comp_type) =>
              processed.component = Unknown
        /\ Present(entry.component) /\ entry.component.ty # "dict" =>
              processed.component = JStr(PyStr(entry.component))
        /\ ~Present(entry.component) /\ Present(entry.service_name) =>
              processed.component = entry.service_name
        /\ ~Present(entry.component) /\ ~Present(entry.service_name) =>
              processed.component = Unknown

\* a document with both component.binary and service.name has been normalized
C7_Witness ==
    /\ Normalized
    /\ entry.component.ty = "dict"
    /\ entry.comp_binary = JStr(<<"metricbeat">>)
    /\ entry.service_name = JStr(<<"svc">>)
    /\ processed.component = JStr(<<"metricbeat">>)

NonEmpty(v) == v.ty # "null" /\ ~(v.ty = "str" /\ v.s = <<>>)

\* C8: every record has a non-empty component, a non-empty level and a
\* parsed_timestamp that is an instant or the sentinel.
C8_FieldsNeverEmpty ==
    Normalized =>
        /\ NonEmpty(processed.component)
        /\ NonEmpty(processed.level)
        /\ processed.parsed_timestamp.aware \in BOOLEAN
        /\ processed.parsed_timestamp.t >= 0

----------------------------------------------------------------------------
(* One server group, its loader threads and its viewer *)

MaxThreads == 2

FileNames == {"a.log", "b.log"}

Boom == <<"B", "o", "o", "m">>

LogDoc(ts, level, message) ==
    Doc(ts, level, JStr(<<"filebeat">>), JAbsent, JAbsent, JAbsent, message)

ErrorAt10Z ==
    LogDoc(JStr(<<"0001-01-01T10:00:00", "Z">>), JStr(<<"error">>), JStr(Boom))

InfoAt3Z ==
    LogDoc(JStr(<<"0001-01-01T03:00:00", "Z">>), JStr(<<"info">>), JStr(<<"up">>))

NoTimestamp == LogDoc(JAbsent, JStr(<<"ERROR">>), JStr(Boom))

NullMessage ==
    LogDoc(JStr(<<"0001-01-01T10:01:00", "Z">>), JStr(<<"info">>), JNull)

\* what a.log may hold; b.log holds one document
FileContents ==
    {Unreadable,
     FileOf(<<BlankLine>>),
     FileOf(<<DocLine(ErrorAt10Z), DocLine(InfoAt3Z)>>),
     FileOf(<<DocLine(ErrorAt10Z), DocLine(NoTimestamp)>>),
     FileOf(<<BadLine, DocLine(InfoAt3Z)>>),
     FileOf(<<BlankLine, DocLine(InfoAt3Z)>>),
     FileOf(<<DocLine(NullMessage), DocLine(InfoAt3Z)>>)}

Init ==
    /\ GroupEmpty
    /\ threads = <<>>
    /\ files \in {[f \in FileNames |->
                       IF f = "a.log" THEN c ELSE FileOf(<<DocLine(InfoAt3Z)>>)] :
                   c \in FileContents}
    /\ timezone_var = "UTC"
    /\ ViewIdle
    /\ entry = NotADict
    /\ processed = Idle
    /\ AppIdle
    /\ CallsIdle

\* load_file: clear the group, start a thread
LoadFile(f) ==
    /\ Len(threads) < MaxThreads
    /\ SetGroup(ClearedGroup)
    /\ threads' = Append(threads, NewThread("load", f))
    /\ UNCHANGED <<files, timezone_var, viewVars, normVars, appVars, callVars>>

\* add_file with a name that is not in loaded_files: start a thread
AddFile(f) ==
    /\ Len(threads) < MaxThreads
    /\ f \notin loaded_files
    /\ threads' = Append(threads, NewThread("add", f))
    /\ UNCHANGED <<groupVars, files, timezone_var, viewVars, normVars, appVars,
                   callVars>>

\* add_file with a name that is in loaded_files: a warning, and no thread
AddFileRejected(f) ==
    /\ Len(threads) < MaxThreads
    /\ f \in loaded_files
    /\ threads' = Append(threads, [NewThread("add", f) EXCEPT !.pc = "rejected"])
    /\ UNCHANGED <<groupVars, files, timezone_var, viewVars, normVars, appVars,
                   callVars>>

\* lines 511-522: register the name, read the file; open() raising takes
\* the thread to its except clause
ThreadStart(i) ==
    /\ threads[i].pc = "start"
    /\ loaded_files' = loaded_files \cup {threads[i].file}
    /\ threads' = [threads EXCEPT ![i].pc =
                      IF files[threads[i].file].readable THEN "lines" ELSE "error"]
    /\ UNCHANGED <<logs, components, log_levels, files, timezone_var,
                   viewVars, normVars, appVars, callVars>>

\* one iteration of the loop of lines 524-537
ThreadLine(i) ==
    LET th == threads[i]
        lines == SplitLines(files[th.file].lines)
        r == LoadLine(Group, lines[th.line_num], th.line_num, th.file,
                      timezone_var)
    IN  /\ th.pc = "lines"
        /\ SetGroup(r.group)
        /\ threads' = [threads EXCEPT ![i] =
                          [th EXCEPT !.pc = IF r.raised THEN "error"
                                            ELSE IF th.line_num = Len(lines)
                                            THEN "sort" ELSE "lines",
                                     !.line_num = th.line_num + 1,
                                     !.new_logs = th.new_logs + r.added]]
        /\ UNCHANGED <<files, timezone_var, viewVars, normVars, appVars,
                       callVars>>

\* line 540, the sort succeeding
ThreadSort(i) ==
    /\ threads[i].pc = "sort"
    /\ ~SortRaises(logs)
    /\ logs' = SortedByTimestamp(logs)
    /\ threads' = [threads EXCEPT ![i].pc = "done"]
    /\ UNCHANGED <<components, log_levels, loaded_files, files, timezone_var,
                   viewVars, normVars, appVars, callVars>>

\* line 540, the sort raising TypeError, and the except clause
ThreadSortRaises(i) ==
    /\ threads[i].pc = "sort"
    /\ SortRaises(logs)
    /\ logs' \in AfterFailedSort(logs)
    /\ threads' = [threads EXCEPT ![i].pc = "error"]
    /\ UNCHANGED <<components, log_levels, loaded_files, files, timezone_var,
                   viewVars, normVars, appVars, callVars>>

\* apply_filters, from the Apply button or from refresh_display
ApplyFilters ==
    LET r == apply_filters(logs, filters)
    IN  /\ filtered_logs' = r.filtered_logs
        /\ view' = [applied |-> TRUE, raised |-> r.raised]
        /\ UNCHANGED <<groupVars, threads, files, timezone_var, filters,
                       normVars, appVars, callVars>>

Next ==
    \/ \E f \in FileNames : LoadFile(f)
    \/ \E f \in FileNames : AddFile(f)
    \/ \E f \in FileNames : AddFileRejected(f)
    \/ \E i \in DOMAIN threads : ThreadStart(i)
    \/ \E i \in DOMAIN threads : ThreadLine(i)
    \/ \E i \in DOMAIN threads : ThreadSort(i)
    \/ \E i \in DOMAIN threads : ThreadSortRaises(i)
    \/ ApplyFilters

Spec == Init /\ [][Next]_vars

----------------------------------------------------------------------------
(* Claims about loading *)

Finished(th) == th.pc \in {"done", "error", "rejected"}

\* requests have been made and no load thread is still running
Quiescent == threads # <<>> /\ \A i \in DOMAIN threads : Finished(threads[i])

IsSentinel(log) == log.parsed_timestamp = Sentinel

\* a may stand before b in a list sorted by timestamp, sentinels first
InOrder(a, b) ==
    \/ IsSentinel(a)
    \/ ~IsSentinel(b) /\ a.parsed_timestamp.t <= b.parsed_timestamp.t

SortedSentinelFirst(ls) ==
    \A i, j \in DOMAIN ls : i < j => InOrder(ls[i], ls[j])

\* C1: once the Load and Add operations on the group have run to
\* completion, logs is sorted ascending by parsed_timestamp, every sentinel
\* record before every record with a real timestamp.
C1_SortedAfterLoads == Quiescent => SortedSentinelFirst(logs)

\* the same line of the same file is in logs twice
IngestedTwice ==
    \E i, j \in DOMAIN logs :
        /\ i < j
        /\ logs[i].file_name = logs[j].file_name
        /\ logs[i].line_number = logs[j].line_number

OnlyAddRequests == \A i \in DOMAIN threads : threads[i].kind = "add"

\* C2: whatever the sequence and interleaving of Add-file requests on the
\* group, no file name is ingested into it twice.
C2_NoFileIngestedTwice == OnlyAddRequests => ~IngestedTwice

\* the latest request was a Load of f, and its thread has completed
LoadCompleted(f) ==
    /\ threads # <<>>
    /\ threads[Len(threads)].kind = "load"
    /\ threads[Len(threads)].file = f
    /\ threads[Len(threads)].pc = "done"

\* C3: once a Load of f has completed, loaded_files = {f} and every record,
\* component and level of the group comes from f, also when an earlier
\* thread was still running when the Load was requested.
C3_LoadReplaces ==
    \A f \in FileNames :
        LoadCompleted(f) =>
            /\ loaded_files = {f}
            /\ \A i \in DOMAIN logs : logs[i].file_name = f
            /\ components = {logs[i].component : i \in DOMAIN logs}
            /\ log_levels = {logs[i].level : i \in DOMAIN logs}

\* a thread is between its first add_log and the end of its sort
MidLoad ==
    \E i \in DOMAIN threads :
        threads[i].pc \in {"lines", "sort"} /\ threads[i].new_logs > 0

\* C4: no apply_filters reads the group's logs while a Load/Add thread is
\* between its first add_log and its final sort.
C4_ReadsSerialized == [][filtered_logs' # filtered_logs => ~MidLoad]_vars

----------------------------------------------------------------------------
(* The filter on its own: a loaded group, one setting of the filter widgets *)

MaxLogs == 2

NaiveAt10 ==
    Doc(JStr(<<"0001-01-01T10:00:00">>), JStr(<<"error">>),
        JStr(<<"metricbeat">>), JAbsent, JAbsent, JAbsent, JStr(<<"up">>))

FilterDocs == {ErrorAt10Z, InfoAt3Z, NoTimestamp, NaiveAt10}

\* the lines ingested into the group, each with the file it came from
Ingestions ==
    UNION {[1..n -> FileNames \X FilterDocs] : n \in 0..MaxLogs}

\* the group once the lines have gone through lines 531-534, before the sort
RECURSIVE Ingested(_)
Ingested(ins) ==
    IF ins = <<>> THEN ClearedGroup
    ELSE LET n == Len(ins)
             g == Ingested(SubSeq(ins, 1, n - 1))
             r == LoadLine(g, DocLine(ins[n][2]), n, ins[n][1], "UTC")
         IN  [r.group EXCEPT !.loaded_files = @ \cup {ins[n][1]}]

\* logs once line 540 has run on them
AfterSort(ls) ==
    IF SortRaises(ls) THEN AfterFailedSort(ls) ELSE {SortedByTimestamp(ls)}

TimeStrings ==
    {<<>>, <<"not-a-time">>, <<"0001-1-1 10:0:0">>,
     <<"0001-01-01T03:00:00", "Z">>, <<"0001-01-01T10:00:00", "Z">>}

FilterSettings ==
    [component_var : {All, <<"filebeat">>},
     level_var : {All, <<"error">>},
     file_var : {All, <<"a.log">>},
     search_var : {<<>>, <<"B", "O">>},
     start_time : TimeStrings,
     end_time : TimeStrings]

InitFilter ==
    /\ \E ins \in Ingestions :
          /\ logs \in AfterSort(Ingested(ins).logs)
          /\ components = Ingested(ins).components
          /\ log_levels = Ingested(ins).log_levels
          /\ loaded_files = Ingested(ins).loaded_files
    /\ threads = <<>>
    /\ files = <<>>
    /\ timezone_var = "UTC"
    /\ filters \in FilterSettings
    /\ filtered_logs = <<>>
    /\ view = NotApplied
    /\ entry = NotADict
    /\ processed = Idle
    /\ AppIdle
    /\ CallsIdle

\* the Apply button, once
ApplyOnce == ~view.applied /\ ApplyFilters

NextFilter == ApplyOnce

SpecFilter == InitFilter /\ [][NextFilter]_vars

----------------------------------------------------------------------------
(* Claims about the filter *)

HasStart(f) == ParseBound(f.start_time).set
HasEnd(f) == ParseBound(f.end_time).set

\* instants in ascending order, the sentinel being the least
NotAfter(a, b) == a = Sentinel \/ (b # Sentinel /\ a.t <= b.t)

\* the record satisfies every constraint of the setting other than the time
\* range
SatisfiesOthers(log, f) ==
    /\ f.component_var # All => log.component = JStr(f.component_var)
    /\ f.level_var # All => log.level = JStr(f.level_var)
    /\ f.file_var # All => <<log.file_name>> = f.file_var
    /\ f.search_var # <<>> =>
          /\ log.full_message.ty = "str"
          /\ IsSubstring(Lower(f.search_var),
                         Lower(log.full_message.s \o <<" ">> \o Dumps(log.raw)))

\* the record satisfies every active constraint of the setting
Satisfies(log, f) ==
    /\ SatisfiesOthers(log, f)
    /\ HasStart(f) => NotAfter(ParseBound(f.start_time).dt, log.parsed_timestamp)
    /\ HasEnd(f) => NotAfter(log.parsed_timestamp, ParseBound(f.end_time).dt)

Selected(ls, f) ==
    LET Test(log) == Satisfies(log, f) IN SelectSeq(ls, Test)

\* C9: apply_filters yields exactly the records of the group that satisfy
\* every active constraint, in collection order, and all of them when no
\* constraint is active (so that filtering by a second setting can only
\* narrow the result to the records that satisfy both).
C9_FilterExact ==
    view.applied =>
        /\ ~view.raised
        /\ filtered_logs = Selected(logs, filters)
        /\ filters = NoFilters => filtered_logs = logs

InFiltered(log) == \E i \in DOMAIN filtered_logs : filtered_logs[i] = log

\* C10: time bounds are inclusive; a sentinel record never passes a filter
\* with a start bound, an end bound or both, and passes, subject to the
\* other constraints, when neither is set.
C10_SentinelOutOfRange ==
    view.applied =>
        \A i \in DOMAIN logs :
            /\ IsSentinel(logs[i]) /\ (HasStart(filters) \/ HasEnd(filters)) =>
                  ~InFiltered(logs[i])
            /\ IsSentinel(logs[i]) /\ ~HasStart(filters) /\ ~HasEnd(filters)
                  /\ SatisfiesOthers(logs[i], filters) =>
                  InFiltered(logs[i])
            /\ (/\ ~view.raised
                /\ ~IsSentinel(logs[i])
                /\ SatisfiesOthers(logs[i], filters)
                /\ HasStart(filters) =>
                      logs[i].parsed_timestamp.t
                          >= ParseBound(filters.start_time).dt.t
                /\ HasEnd(filters) =>
                      logs[i].parsed_timestamp.t
                          <= ParseBound(filters.end_time).dt.t)
                  => InFiltered(logs[i])

\* the string is typed and neither fromisoformat nor strptime accepts it
Malformed(time_str) ==
    /\ time_str # <<>>
    /\ ~FromIso(ReplaceZ(time_str)).ok
    /\ ~Strptime(time_str).ok

\* what the Apply button has left behind
Outcome == [raised |-> view.raised, filtered_logs |-> filtered_logs]

----------------------------------------------------------------------------
(* The comparison engine on its own: the logs of two loaded server groups,  *)
(* one call of find_similar_messages or find_timeline_correlations          *)

MaxRecords == 2

Aba == <<"a", "b", "a">>
Bca == <<"b", "c", "a">>

ErrorAbaAt10Z ==
    LogDoc(JStr(<<"0001-01-01T10:00:00", "Z">>), JStr(<<"error">>), JStr(Aba))

UpperErrorBcaAt1030Z ==
    LogDoc(JStr(<<"0001-01-01T10:01:30", "Z">>), JStr(<<"ERROR">>), JStr(Bca))

WarnAbaAt1001Z ==
    LogDoc(JStr(<<"0001-01-01T10:01:00", "Z">>), JStr(<<"warn">>), JStr(Aba))

ErrorAbaNaiveAt10 ==
    LogDoc(JStr(<<"0001-01-01T10:00:00">>), JStr(<<"error">>), JStr(Aba))

ErrorBcaNoTimestamp == LogDoc(JAbsent, JStr(<<"error">>), JStr(Bca))

InfoAbaAt10Z ==
    LogDoc(JStr(<<"0001-01-01T10:00:00", "Z">>), JStr(<<"info">>), JStr(Aba))

EngineDocs ==
    {ErrorAbaAt10Z, UpperErrorBcaAt1030Z, WarnAbaAt1001Z, ErrorAbaNaiveAt10,
     ErrorBcaNoTimestamp, InfoAbaAt10Z}

\* the lines loaded into the first group, from a.log
Ingestions1 ==
    UNION {[1..n -> {"a.log"} \X EngineDocs] : n \in 0..MaxRecords}

\* the lines loaded into the second group, from b.log
Ingestions2 ==
    {[i \in DOMAIN ds |-> <<"b.log", ds[i]>>] :
        ds \in {<<>>,
                <<ErrorAbaAt10Z>>,
                <<UpperErrorBcaAt1030Z>>,
                <<ErrorAbaNaiveAt10>>,
                <<ErrorAbaAt10Z, UpperErrorBcaAt1030Z>>,
                <<ErrorAbaAt10Z, WarnAbaAt1001Z>>,
                <<InfoAbaAt10Z, UpperErrorBcaAt1030Z>>,
                <<ErrorBcaNoTimestamp, InfoAbaAt10Z, ErrorAbaAt10Z>>}}

\* the windows 0, 1.5 and 2 minutes, and the thresholds 1/3, 2/3 and 0.9
Windows == {0, 90, 120}
Thresholds ==
    {[num |-> 1, den |-> 3], [num |-> 2, den |-> 3], [num |-> 9, den |-> 10]}

NotCalled(logs1, logs2, similarity_threshold, window_seconds) ==
    [called |-> FALSE, op |-> "none", logs1 |-> logs1, logs2 |-> logs2,
     similarity_threshold |-> similarity_threshold,
     window_seconds |-> window_seconds,
     raised |-> FALSE, correlations |-> <<>>]

InitEngine ==
    /\ GroupEmpty
    /\ threads = <<>>
    /\ files = <<>>
    /\ ViewIdle
    /\ timezone_var = "UTC"
    /\ entry = NotADict
    /\ processed = Idle
    /\ AppIdle
    /\ analysis_text = <<>>
    /\ report = NoReport
    /\ \E ins1 \in Ingestions1, ins2 \in Ingestions2 :
          \E logs1 \in AfterSort(Ingested(ins1).logs),
             logs2 \in AfterSort(Ingested(ins2).logs),
             t \in Thresholds, w \in Windows :
                engine = NotCalled(logs1, logs2, t, w)

\* lines 808-810 and 902-904
FindSimilarMessages ==
    /\ ~engine.called
    /\ LET r == find_similar_messages(engine.logs1, engine.logs2,
                    engine.similarity_threshold, engine.window_seconds)
       IN  engine' = [engine EXCEPT !.called = TRUE, !.op = "similar",
                                    !.raised = r.raised,
                                    !.correlations = r.correlations]
    /\ UNCHANGED <<groupVars, threads, files, timezone_var, viewVars,
                   normVars, appVars,
                   analysis_text, report>>

\* lines 776 and 849
FindTimelineCorrelations ==
    /\ ~engine.called
    /\ LET r == find_timeline_correlations(engine.logs1, engine.logs2,
                    engine.window_seconds)
       IN  engine' = [engine EXCEPT !.called = TRUE, !.op = "timeline",
                                    !.raised = r.raised,
                                    !.correlations = r.correlations]
    /\ UNCHANGED <<groupVars, threads, files, timezone_var, viewVars,
                   normVars, appVars,
                   analysis_text, report>>

NextEngine == FindSimilarMessages \/ FindTimelineCorrelations

SpecEngine == InitEngine /\ [][NextEngine]_vars

----------------------------------------------------------------------------
(* Claims about timeline correlation *)

TimelineDone == engine.called /\ engine.op = "timeline"

\* the minute an instant falls in, whatever form its timestamp was written in
MinuteOf(log) == log.parsed_timestamp.t \div SecondsPerMinute

\* the records of a collection that carry a real timestamp in minute m
InMinute(ls, m) ==
    LET Test(log) == ~IsSentinel(log) /\ MinuteOf(log) = m
    IN  SelectSeq(ls, Test)

IsError(log) == log.level.ty = "str" /\ Lower(log.level.s) = <<"error">>

ErrorsIn(ls) == SelectSeq(ls, IsError)

Floor(window_seconds) == window_seconds \div SecondsPerMinute

\* the pairs <<minute of A, offset>> that the contract asks an entry for
ExpectedPairs(A, B, window_seconds) ==
    {mk \in {<<MinuteOf(A[i]), k>> :
                i \in {j \in DOMAIN A : ~IsSentinel(A[j])},
                k \in (0 - Floor(window_seconds))..Floor(window_seconds)} :
        /\ ErrorsIn(InMinute(A, mk[1])) # <<>>
        /\ ErrorsIn(InMinute(B, mk[1] + mk[2])) # <<>>}

EmittedPairs ==
    {<<engine.correlations[i].time_bucket.t \div SecondsPerMinute,
       engine.correlations[i].time_offset_minutes>> :
        i \in DOMAIN engine.correlations}

\* C12: find_timeline_correlations(A, B, w) emits an entry with time_bucket b
\* and offset k exactly when b is the minute bucket of a non-sentinel record
\* of A, |k| <= floor(w), B has a non-sentinel record in minute b+k and both
\* buckets hold a record of level 'error' (case-insensitively); the entry's
\* counts are the sizes of the two buckets and of their error subsets.
C12_TimelineEntries ==
    TimelineDone =>
        /\ ~engine.raised
        /\ EmittedPairs
              = ExpectedPairs(engine.logs1, engine.logs2, engine.window_seconds)
        /\ \A i \in DOMAIN engine.correlations :
              LET c == engine.correlations[i]
                  m == c.time_bucket.t \div SecondsPerMinute
                  a == InMinute(engine.logs1, m)
                  b == InMinute(engine.logs2, m + c.time_offset_minutes)
              IN  /\ c.server1_events = Len(a)
                  /\ c.server2_events = Len(b)
                  /\ c.server1_errors = Len(ErrorsIn(a))
                  /\ c.server2_errors = Len(ErrorsIn(b))

\* the bucket of B that an entry pairs its bucket of A with
PairedBucket(c) ==
    [aware |-> c.time_bucket.aware,
     t |-> c.time_bucket.t + c.time_offset_minutes * SecondsPerMinute]

\* the entries made for the same bucket of A and the same bucket of B
SamePair(c) ==
    {j \in DOMAIN engine.correlations :
        /\ engine.correlations[j].time_bucket = c.time_bucket
        /\ PairedBucket(engine.correlations[j]) = PairedBucket(c)}

\* the position in A of the first record of a bucket of A
Discovery(bucket) ==
    CHOOSE i \in DOMAIN engine.logs1 :
        /\ BucketLogs(engine.logs1, bucket) # <<>>
        /\ engine.logs1[i] = BucketLogs(engine.logs1, bucket)[1]
        /\ \A j \in 1..(i - 1) :
              engine.logs1[j] # BucketLogs(engine.logs1, bucket)[1]

\* entry c is generated before entry d
GeneratedBefore(c, d) ==
    \/ Discovery(c.time_bucket) < Discovery(d.time_bucket)
    \/ /\ c.time_bucket = d.time_bucket
       /\ c.time_offset_minutes < d.time_offset_minutes

InGenerationOrder ==
    \A i, j \in DOMAIN engine.correlations :
        i < j => GeneratedBefore(engine.correlations[i], engine.correlations[j])

----------------------------------------------------------------------------
(* Claims about message similarity *)

SimilarDone == engine.called /\ engine.op = "similar"

IsImportant(log) ==
    log.level.ty = "str" /\ Lower(log.level.s) \in ImportantLevels

SecondsApart(a, b) == Abs(a.parsed_timestamp.t - b.parsed_timestamp.t)

MessageRatio(a, b) ==
    calculate_similarity(Lower(a.full_message.s), Lower(b.full_message.s))

\* the pair of records that the contract asks an entry for
Qualifies(a, b, similarity_threshold, window_seconds) ==
    /\ IsImportant(a) /\ IsImportant(b)
    /\ ~IsSentinel(a) /\ ~IsSentinel(b)
    /\ SecondsApart(a, b) <= window_seconds
    /\ AtLeast(MessageRatio(a, b), similarity_threshold)

EntriesFor(a, b) ==
    {k \in DOMAIN engine.correlations :
        engine.correlations[k].log1 = a /\ engine.correlations[k].log2 = b}

\* C14: find_similar_messages(A, B, t, w) returns exactly one entry for each
\* pair (a in A, b in B) of error/warn/warning records (case-insensitively)
\* with real timestamps at most w minutes apart (inclusive) whose lower-cased
\* full messages have similarity >= t (inclusive), and no other entry; the
\* entry's time_diff_minutes is the pair's distance in minutes.
C14_SimilarPairs ==
    SimilarDone =>
        /\ ~engine.raised
        /\ \A i \in DOMAIN engine.logs1, j \in DOMAIN engine.logs2 :
              Cardinality(EntriesFor(engine.logs1[i], engine.logs2[j]))
                = IF Qualifies(engine.logs1[i], engine.logs2[j],
                               engine.similarity_threshold,
                               engine.window_seconds)
                  THEN 1 ELSE 0
        /\ \A k \in DOMAIN engine.correlations :
              LET c == engine.correlations[k]
              IN  /\ \E i \in DOMAIN engine.logs1 : c.log1 = engine.logs1[i]
                  /\ \E j \in DOMAIN engine.logs2 : c.log2 = engine.logs2[j]
                  /\ c.similarity = MessageRatio(c.log1, c.log2)
                  /\ c.time_diff_minutes
                        = [num |-> SecondsApart(c.log1, c.log2),
                           den |-> SecondsPerMinute]

\* the place of a record in a collection
IndexIn(ls, log) == CHOOSE i \in DOMAIN ls : ls[i] = log

\* the pair of entry c is met before the pair of entry d by the loops over
\* A's records and, within one record of A, over B's
DiscoveredBefore(c, d) ==
    \/ IndexIn(engine.logs1, c.log1) < IndexIn(engine.logs1, d.log1)
    \/ /\ c.log1 = d.log1
       /\ IndexIn(engine.logs2, c.log2) < IndexIn(engine.logs2, d.log2)

\* C15: the list returned by find_similar_messages is ordered by
\* non-increasing similarity, and entries of equal similarity appear in
\* discovery order (outer loop over A's records in collection order, inner
\* loop over B's).
C15_SimilarityOrder ==
    SimilarDone /\ ~engine.raised =>
        \A k, l \in DOMAIN engine.correlations :
            k < l =>
                LET c == engine.correlations[k]
                    d == engine.correlations[l]
                IN  /\ AtLeast(c.similarity, d.similarity)
                    /\ SameRatio(c.similarity, d.similarity) =>
                          DiscoveredBefore(c, d)

\* a tie in first place, ahead of a lesser entry that was discovered before
\* the second of the tied ones
C15_Witness ==
    /\ SimilarDone
    /\ ~engine.raised
    /\ Len(engine.correlations) >= 3
    /\ SameRatio(engine.correlations[1].similarity,
                 engine.correlations[2].similarity)
    /\ ~AtLeast(engine.correlations[3].similarity,
                engine.correlations[2].similarity)
    /\ DiscoveredBefore(engine.correlations[3], engine.correlations[2])

\* the record pairs of a result with their scores, as <<record of the first
\* collection, record of the second, similarity>>
Scored(correlations) ==
    {<<correlations[k].log1, correlations[k].log2, correlations[k].similarity>> :
        k \in DOMAIN correlations}

Swapped(scored) == {<<x[2], x[1], x[3]>> : x \in scored}

\* C16: calculate_similarity(a, b) = calculate_similarity(b, a), so
\* find_similar_messages(A, B, t, w) and find_similar_messages(B, A, t, w)
\* report the same record pairs with the same scores.
C16_Symmetric ==
    SimilarDone /\ ~engine.raised =>
        /\ \A k \in DOMAIN engine.correlations :
              LET c == engine.correlations[k]
              IN  SameRatio(c.similarity, MessageRatio(c.log2, c.log1))
        /\ Scored(engine.correlations)
              = Swapped(Scored(find_similar_messages(engine.logs2, engine.logs1,
                                    engine.similarity_threshold,
                                    engine.window_seconds).correlations))

----------------------------------------------------------------------------
(* The similarity function on its own: two texts, one call *)

MaxText == 2

Alphabet == {"a", "b", "c"}

Abc == <<"a", "b", "c">>
Xyz == <<"x", "y", "z">>

Texts == UNION {[1..n -> Alphabet] : n \in 0..MaxText} \cup {Abc, Xyz}

InitRatio ==
    /\ GroupEmpty
    /\ threads = <<>>
    /\ files = <<>>
    /\ ViewIdle
    /\ timezone_var = "UTC"
    /\ entry = NotADict
    /\ processed = Idle
    /\ AppIdle
    /\ analysis_text = <<>>
    /\ report = NoReport
    /\ \E str1 \in Texts, str2 \in Texts :
          engine = [called |-> FALSE, op |-> "none", str1 |-> str1,
                    str2 |-> str2, ratio |-> [num |-> 0, den |-> 1]]

\* lines 78-81
CalculateSimilarity ==
    /\ ~engine.called
    /\ engine' = [engine EXCEPT
                    !.called = TRUE,
                    !.op = "ratio",
                    !.ratio = calculate_similarity(engine.str1, engine.str2)]
    /\ UNCHANGED <<groupVars, threads, files, timezone_var, viewVars,
                   normVars, appVars,
                   analysis_text, report>>

NextRatio == CalculateSimilarity

SpecRatio == InitRatio /\ [][NextRatio]_vars

RatioDone == engine.called /\ engine.op = "ratio"

\* C17: calculate_similarity(a, b) is 2 x (total matched block length) /
\* (len(a) + len(b)), lies in [0,1], is 1.0 when a = b, the two empty texts
\* included, and is below 0.5 for 'abc' and 'xyz'.
C17_RatioContract ==
    RatioDone =>
        LET a == engine.str1
            b == engine.str2
            matched == MatchedLength(a, b, 1, Len(a), 1, Len(b))
        IN  /\ engine.ratio.den > 0
            /\ 0 <= engine.ratio.num /\ engine.ratio.num <= engine.ratio.den
            /\ Len(a) + Len(b) > 0 =>
                  engine.ratio.num * (Len(a) + Len(b))
                      = 2 * matched * engine.ratio.den
            /\ matched <= Min(Len(a), Len(b))
            /\ a = b => engine.ratio.num = engine.ratio.den
            /\ a = Abc /\ b = Xyz => 2 * engine.ratio.num < engine.ratio.den

\* the ratio of the two empty texts has been computed
C17_Witness ==
    /\ RatioDone
    /\ engine.str1 = <<>>
    /\ engine.str2 = <<>>
    /\ engine.ratio.num = engine.ratio.den

----------------------------------------------------------------------------
(* The analysis pane of one server: a loaded group, the analysis buttons *)

MaxEvents == 6

StartedAt3Z ==
    LogDoc(JStr(<<"0001-01-01T03:00:00", "Z">>), JStr(<<"info">>),
           JStr(<<"started">>))

FailedAt1001Z ==
    LogDoc(JStr(<<"0001-01-01T10:01:00", "Z">>), JStr(<<"error">>),
           JStr(<<"failed">>))

ListMessageAt1030Z ==
    LogDoc(JStr(<<"0001-01-01T10:01:30", "Z">>), JStr(<<"error">>), JList)

StartedNoTimestamp == LogDoc(JAbsent, JStr(<<"info">>), JStr(<<"started">>))

ReportDocs ==
    {StartedAt3Z, FailedAt1001Z, ListMessageAt1030Z, StartedNoTimestamp}

ReportIngestions ==
    UNION {[1..n -> {"a.log"} \X ReportDocs] : n \in 0..MaxEvents}

InitReport ==
    /\ \E ins \in ReportIngestions :
          /\ logs \in AfterSort(Ingested(ins).logs)
          /\ components = Ingested(ins).components
          /\ log_levels = Ingested(ins).log_levels
          /\ loaded_files = Ingested(ins).loaded_files
    /\ threads = <<>>
    /\ files = <<>>
    /\ ViewIdle
    /\ timezone_var = "UTC"
    /\ entry = NotADict
    /\ processed = Idle
    /\ AppIdle
    /\ CallsIdle

\* the Timeline, Errors, Health and Components buttons
RunTimelineAnalysis ==
    /\ LET r == run_timeline_analysis(analysis_text, logs, timezone_var)
       IN  /\ analysis_text' = r.text
           /\ report' = [called |-> TRUE, op |-> TimelineAnalysis,
                         raised |-> r.raised, ran |-> <<>>]
    /\ UNCHANGED <<groupVars, threads, files, timezone_var, viewVars,
                   normVars, appVars,
                   engine>>

RunErrorAnalysis ==
    /\ LET r == run_error_analysis(analysis_text, logs, timezone_var)
       IN  /\ analysis_text' = r.text
           /\ report' = [called |-> TRUE, op |-> ErrorAnalysis,
                         raised |-> r.raised, ran |-> <<>>]
    /\ UNCHANGED <<groupVars, threads, files, timezone_var, viewVars,
                   normVars, appVars,
                   engine>>

RunHealthAnalysis ==
    /\ LET r == run_health_analysis(analysis_text, logs)
       IN  /\ analysis_text' = r.text
           /\ report' = [called |-> TRUE, op |-> HealthAnalysis,
                         raised |-> r.raised, ran |-> <<>>]
    /\ UNCHANGED <<groupVars, threads, files, timezone_var, viewVars,
                   normVars, appVars,
                   engine>>

RunComponentAnalysis ==
    /\ LET r == run_component_analysis(analysis_text, logs, timezone_var)
       IN  /\ analysis_text' = r.text
           /\ report' = [called |-> TRUE, op |-> ComponentAnalysis,
                         raised |-> r.raised, ran |-> <<>>]
    /\ UNCHANGED <<groupVars, threads, files, timezone_var, viewVars,
                   normVars, appVars,
                   engine>>

\* the Generate Report button
GenerateReport ==
    /\ LET r == generate_report(analysis_text, logs, timezone_var)
       IN  /\ analysis_text' = r.text
           /\ report' = [called |-> TRUE, op |-> ReportName,
                         raised |-> r.raised, ran |-> r.ran,
                         verdicts |-> r.verdicts]
    /\ UNCHANGED <<groupVars, threads, files, timezone_var, viewVars,
                   normVars, appVars,
                   engine>>

NextReport ==
    \/ RunTimelineAnalysis
    \/ RunErrorAnalysis
    \/ RunHealthAnalysis
    \/ RunComponentAnalysis
    \/ GenerateReport

SpecReport == InitReport /\ [][NextReport]_vars

----------------------------------------------------------------------------
(* Claims about the report and the component analysis *)

\* generate_report has run to its end on a group that holds records
ReportDone ==
    /\ report.called
    /\ report.op = ReportName
    /\ ~report.raised
    /\ logs # <<>>

\* the places of the pane where an analyzer's output starts
TitlesOf(name) ==
    {p \in DOMAIN analysis_text : analysis_text[p] = Chunk("title", name)}

\* C18: after generate_report completes on a non-empty group the report is
\* the report header (and executive summary) followed by the outputs of the
\* timeline, error, health and component analyzers, all four present, in that
\* order.
C18_ReportIsConcatenation ==
    ReportDone =>
        /\ analysis_text[1] = Chunk("header", ReportName)
        /\ \A i \in DOMAIN Analyses : TitlesOf(Analyses[i]) # {}
        /\ \A i, j \in DOMAIN Analyses :
              i < j => \A p \in TitlesOf(Analyses[i]), q \in TitlesOf(Analyses[j]) :
                          p < q

\* C19: an analyzer that raises during generate_report does not stop the
\* analyzers after it, and the finished report holds a labelled error line
\* naming the analyzer that failed.
C19_FailureReportedInline ==
    ReportDone =>
        /\ Len(report.ran) = Len(Analyses)
        /\ \A i \in DOMAIN report.ran :
              /\ report.ran[i].name = Analyses[i]
              /\ report.ran[i].raised =>
                    \E p \in DOMAIN analysis_text :
                        analysis_text[p] = Chunk("error", Analyses[i])

\* C27: for every non-empty group generate_report prints exactly one overall
\* verdict: HEALTHY iff there are no errors, fewer than 10 warnings and no
\* gap of more than 5 minutes between consecutive timestamps; ISSUES DETECTED
\* iff there is an error or such a gap; WARNINGS PRESENT in the remaining
\* case.
C27_OneVerdict ==
    ReportDone =>
        LET Error(log) == Lower(log.level.s) = <<"error">>
            Warning(log) == Lower(log.level.s) \in {<<"warn">>, <<"warning">>}
            errors == Len(SelectSeq(logs, Error))
            warnings == Len(SelectSeq(logs, Warning))
            times == SortedInstants(RealTimestamps(logs))
            gap == \E i \in 2..Len(times) :
                       times[i].t - times[i - 1].t > 5 * SecondsPerMinute
        IN  /\ Len(report.verdicts) = 1
            /\ report.verdicts[1] = Healthy
                  <=> errors = 0 /\ warnings < 10 /\ ~gap
            /\ report.verdicts[1] = IssuesDetected <=> errors > 0 \/ gap
            /\ report.verdicts[1] = WarningsPresent
                  <=> errors = 0 /\ ~gap /\ warnings >= 10

ComponentAnalysisDone ==
    /\ report.called
    /\ report.op = ComponentAnalysis
    /\ ~report.raised
    /\ logs # <<>>

\* the status changes of a component that carry a real timestamp
DatedChanges(ls, component) ==
    LET Test(c) == c[2] # Sentinel
    IN  SelectSeq(StatusChanges(ls, component), Test)

\* the timestamps of changes, in seconds
Times(changes) == [i \in DOMAIN changes |-> changes[i][2].t]

\* a sequence of numbers in ascending order, equal ones allowed
RECURSIVE Ascending(_)
Ascending(ns) ==
    IF ns = <<>> THEN <<>>
    ELSE LET n == Len(ns)
             rest == Ascending(SubSeq(ns, 1, n - 1))
             NotGreater(m) == m <= ns[n]
             k == Len(SelectSeq(rest, NotGreater))
         IN  SubSeq(rest, 1, k) \o <<ns[n]>> \o SubSeq(rest, k + 1, Len(rest))

\* C20: for each component the component analysis lists the 5 most recent
\* status changes (those with the 5 greatest timestamps among its started,
\* stopped and error events), in chronological order, whatever the mix of
\* status kinds.
C20_FiveMostRecentChanges ==
    ComponentAnalysisDone =>
        \A p \in DOMAIN analysis_text :
            analysis_text[p].kind = "component" =>
                Times(analysis_text[p].lines)
                    = LastShown(Ascending(Times(
                        DatedChanges(logs, JStr(analysis_text[p].of)))))

----------------------------------------------------------------------------
(* The timeline analysis on its own: a loaded group, the Timeline button *)

MaxStamps == 3

UpAt(ts) == LogDoc(JStr(ts), JStr(<<"info">>), JStr(<<"up">>))

UpAt1003Z == UpAt(<<"0001-01-01T10:03:00", "Z">>)
UpAt1005Z == UpAt(<<"0001-01-01T10:05:00", "Z">>)
UpNaiveAt1001 == UpAt(<<"0001-01-01T10:01:00">>)

GapDocs ==
    {ErrorAt10Z, FailedAt1001Z, UpAt1003Z, UpAt1005Z, UpNaiveAt1001,
     NoTimestamp}

GapIngestions ==
    UNION {[1..n -> {"a.log"} \X GapDocs] : n \in 0..MaxStamps}

InitGaps ==
    /\ \E ins \in GapIngestions :
          /\ logs \in AfterSort(Ingested(ins).logs)
          /\ components = Ingested(ins).components
          /\ log_levels = Ingested(ins).log_levels
          /\ loaded_files = Ingested(ins).loaded_files
    /\ threads = <<>>
    /\ files = <<>>
    /\ ViewIdle
    /\ timezone_var = "UTC"
    /\ entry = NotADict
    /\ processed = Idle
    /\ AppIdle
    /\ CallsIdle

NextGaps == RunTimelineAnalysis

SpecGaps == InitGaps /\ [][NextGaps]_vars

TimelineAnalysisDone ==
    /\ report.called
    /\ report.op = TimelineAnalysis
    /\ logs # <<>>

\* the valid timestamps of the group in ascending order, in seconds
ValidTimes(ls) ==
    LET ts == RealTimestamps(ls)
    IN  Ascending([i \in DOMAIN ts |-> ts[i].t])

\* the pairs of neighbours of ns that are more than limit apart
FarApart(ns, limit) ==
    LET Far(i) == i > 1 /\ ns[i] - ns[i - 1] > limit
        at == SelectSeq([i \in DOMAIN ns |-> i], Far)
    IN  [k \in DOMAIN at |->
            [from |-> ns[at[k] - 1], to |-> ns[at[k]],
             duration |-> ns[at[k]] - ns[at[k] - 1]]]

\* the gaps that the pane lists
ReportedGaps ==
    LET IsGaps(c) == c.kind = "gaps"
        found == SelectSeq(analysis_text, IsGaps)
    IN  IF found = <<>> THEN <<>>
        ELSE [k \in DOMAIN found[1].lines |->
                [from |-> found[1].lines[k].gap_start.t,
                 to |-> found[1].lines[k].gap_end.t,
                 duration |-> found[1].lines[k].gap]]

TenOClock == 10 * SecondsPerHour

\* C21: the timeline analysis reports a logging gap for exactly the pairs of
\* consecutive valid timestamps (ascending, sentinel records left out) that
\* are strictly more than 2 minutes apart; 10:00:00, 10:01:00, 10:05:00 give
\* one gap of 4 minutes between the 2nd and the 3rd, and a difference of
\* exactly 2 minutes gives none.
C21_GapsReported ==
    TimelineAnalysisDone =>
        /\ ReportedGaps = FarApart(ValidTimes(logs), 2 * SecondsPerMinute)
        /\ ValidTimes(logs) = <<TenOClock, TenOClock + 60, TenOClock + 300>>
              => ReportedGaps = <<[from |-> TenOClock + 60,
                                   to |-> TenOClock + 300,
                                   duration |-> 4 * SecondsPerMinute]>>
        /\ ValidTimes(logs) = <<TenOClock + 60, TenOClock + 180>>
              => ReportedGaps = <<>>

----------------------------------------------------------------------------
(* The health analysis on its own: a loaded group, the Health button *)

MaxSamples == 3

Monitored(monitoring) ==
    [LogDoc(JAbsent, JStr(<<"info">>), JStr(<<"up">>)) EXCEPT
        !.monitoring = monitoring]

MemoryOf(mb) == Monitored(MemStats(Number(mb * BytesPerMB)))

HealthDocs ==
    {MemoryOf(0), MemoryOf(400), MemoryOf(600), MemoryOf(601),
     Monitored(JAbsent), Monitored(MemStats(JAbsent)),
     Monitored(MemStats(JStr(<<"x">>))), Monitored(JNum(<<"5">>))}

HealthIngestions ==
    UNION {[1..n -> {"a.log"} \X HealthDocs] : n \in 0..MaxSamples}

InitHealth ==
    /\ \E ins \in HealthIngestions :
          /\ logs \in AfterSort(Ingested(ins).logs)
          /\ components = Ingested(ins).components
          /\ log_levels = Ingested(ins).log_levels
          /\ loaded_files = Ingested(ins).loaded_files
    /\ threads = <<>>
    /\ files = <<>>
    /\ ViewIdle
    /\ timezone_var = "UTC"
    /\ entry = NotADict
    /\ processed = Idle
    /\ AppIdle
    /\ CallsIdle

NextHealth == RunHealthAnalysis

SpecHealth == InitHealth /\ [][NextHealth]_vars

HealthDone ==
    /\ report.called
    /\ report.op = HealthAnalysis
    /\ ~report.raised
    /\ logs # <<>>

\* the positive memory_alloc values of the group's records, in MB
AllocatedMB(ls) ==
    LET Sampled(log) ==
            /\ log.raw.monitoring.ty = "dict"
            /\ log.raw.monitoring.memory_alloc.ty = "num"
            /\ log.raw.monitoring.memory_alloc.n > 0
        sampled == SelectSeq(ls, Sampled)
    IN  [i \in DOMAIN sampled |->
            sampled[i].raw.monitoring.memory_alloc.n \div (1024 * 1024)]

RECURSIVE Total(_)
Total(ns) ==
    IF ns = <<>> THEN 0 ELSE ns[Len(ns)] + Total(SubSeq(ns, 1, Len(ns) - 1))

\* the mean of the memory values is more than mb MB
MeanMemoryOver(ls, mb) ==
    LET mbs == AllocatedMB(ls)
    IN  mbs # <<>> /\ Total(mbs) > mb * Len(mbs)

\* the per-metric output carries the high memory usage warning
FlaggedInMetrics ==
    \E p \in DOMAIN analysis_text :
        /\ analysis_text[p].kind = "metrics"
        /\ \E k \in DOMAIN analysis_text[p].lines :
              /\ analysis_text[p].lines[k].name = "Memory Usage"
              /\ analysis_text[p].lines[k].flagged

\* the issue list of the assessment names high memory usage
FlaggedInAssessment ==
    \E p \in DOMAIN analysis_text :
        /\ analysis_text[p].kind = "assessment"
        /\ \E k \in DOMAIN analysis_text[p].lines :
              analysis_text[p].lines[k] = "High memory usage"

Values400And600 ==
    AllocatedMB(logs) \in {<<400, 600>>, <<600, 400>>}

\* C22 as stated: memory-alloc values of 400 MB and 600 MB (mean exactly
\* 500 MB) flag high memory usage, in the per-metric output and in the issue
\* list of the health assessment.
C22_MeanOf500Flagged ==
    HealthDone /\ Values400And600 => FlaggedInMetrics /\ FlaggedInAssessment

\* C22 amended: values of 400 MB and 600 MB flag nothing; high memory usage
\* is flagged, in the per-metric output and in the issue list alike, exactly
\* when the mean of the memory values is strictly more than 500 MB.
C22_FlaggedAbove500 ==
    HealthDone =>
        /\ FlaggedInMetrics <=> MeanMemoryOver(logs, 500)
        /\ FlaggedInAssessment <=> MeanMemoryOver(logs, 500)
        /\ Values400And600 => ~FlaggedInMetrics /\ ~FlaggedInAssessment

C22_Witness ==
    /\ HealthDone
    /\ Values400And600
    /\ ~FlaggedInMetrics
    /\ ~FlaggedInAssessment

----------------------------------------------------------------------------
(* Claims about the group's statistics and about ingestion *)

MatchesLevel(log, names) ==
    log.level.ty = "str" /\ Lower(log.level.s) \in names

HowMany(ls, names) == Cardinality({i \in DOMAIN ls : MatchesLevel(ls[i], names)})

\* the file has no line that is a JSON document
ContributesNothing(f) ==
    \A p \in DOMAIN files[f].lines : files[f].lines[p].kind # "doc"

\* f was Loaded into the group, alone, and its thread has completed
LoadedAlone(f) == Len(threads) = 1 /\ LoadCompleted(f)

AllZero ==
    [raised |-> FALSE, total_logs |-> 0, components |-> 0, files |-> 0,
     errors |-> 0, warnings |-> 0]

\* C23: get_stats returns at every point the number of records, of
\* components, of loaded files, of records of level 'error' and of records of
\* level 'warn' or 'warning' (whatever the case of the letters); after a
\* clear and a Load that contributes no record (an empty file) all five are 0.
C23_StatsCount ==
    /\ get_stats(Group)
          = [raised |-> FALSE,
             total_logs |-> Len(logs),
             components |-> Cardinality(components),
             files |-> Cardinality(loaded_files),
             errors |-> HowMany(logs, {<<"error">>}),
             warnings |-> HowMany(logs, {<<"warn">>, <<"warning">>})]
    /\ \A f \in FileNames :
          LoadedAlone(f) /\ files[f].readable /\ ContributesNothing(f)
              => get_stats(Group) = AllZero

----------------------------------------------------------------------------
(* One server group under a loader thread that calls add_log and the UI     *)
(* thread that calls clear (clear_server, load_file), statement by          *)
(* statement: nothing keeps the two threads from interleaving.              *)

MaxAdds == 2
MaxClears == 2

GroupLogs ==
    {process_log_entry(d, 1, "a.log", ServerName, "UTC") :
        d \in {InfoAt3Z, NaiveAt10}}

InitGroup ==
    /\ GroupEmpty
    /\ threads = <<>>
    /\ files = <<>>
    /\ ViewIdle
    /\ timezone_var = "UTC"
    /\ entry = NotADict
    /\ processed = Idle
    /\ AppIdle
    /\ CallsIdle

restVars ==
    <<threads, files, timezone_var, viewVars, normVars, callVars, app>>

\* line 28: self.logs.append(processed_log)
AddLogAppend ==
    /\ calls.add_log.pc = "idle"
    /\ calls.add_log.made < MaxAdds
    /\ \E processed_log \in GroupLogs :
          /\ logs' = Append(logs, processed_log)
          /\ calls' = [calls EXCEPT !.add_log =
                          [pc |-> "components", made |-> @.made + 1,
                           processed_log |-> processed_log]]
    /\ UNCHANGED <<components, log_levels, loaded_files, restVars>>

\* line 29: self.components.add(processed_log['component'])
AddLogComponents ==
    /\ calls.add_log.pc = "components"
    /\ components' = components \cup {calls.add_log.processed_log.component}
    /\ calls' = [calls EXCEPT !.add_log.pc = "log_levels"]
    /\ UNCHANGED <<logs, log_levels, loaded_files, restVars>>

\* line 30: self.log_levels.add(processed_log['level'])
AddLogLevels ==
    /\ calls.add_log.pc = "log_levels"
    /\ log_levels' = log_levels \cup {calls.add_log.processed_log.level}
    /\ calls' = [calls EXCEPT !.add_log.pc = "idle"]
    /\ UNCHANGED <<logs, components, loaded_files, restVars>>

\* line 33: self.logs = []
ClearLogs ==
    /\ calls.clear.pc = "idle"
    /\ calls.clear.made < MaxClears
    /\ logs' = <<>>
    /\ calls' = [calls EXCEPT !.clear = [pc |-> "components",
                                         made |-> @.made + 1]]
    /\ UNCHANGED <<components, log_levels, loaded_files, restVars>>

\* line 34: self.components = set()
ClearComponents ==
    /\ calls.clear.pc = "components"
    /\ components' = {}
    /\ calls' = [calls EXCEPT !.clear.pc = "log_levels"]
    /\ UNCHANGED <<logs, log_levels, loaded_files, restVars>>

\* line 35: self.log_levels = set()
ClearLogLevels ==
    /\ calls.clear.pc = "log_levels"
    /\ log_levels' = {}
    /\ calls' = [calls EXCEPT !.clear.pc = "loaded_files"]
    /\ UNCHANGED <<logs, components, loaded_files, restVars>>

\* line 36: self.loaded_files = set()
ClearLoadedFiles ==
    /\ calls.clear.pc = "loaded_files"
    /\ loaded_files' = {}
    /\ calls' = [calls EXCEPT !.clear.pc = "idle"]
    /\ UNCHANGED <<logs, components, log_levels, restVars>>

NextGroup ==
    \/ AddLogAppend
    \/ AddLogComponents
    \/ AddLogLevels
    \/ ClearLogs
    \/ ClearComponents
    \/ ClearLogLevels
    \/ ClearLoadedFiles

SpecGroup == InitGroup /\ [][NextGroup]_vars

\* no add_log and no clear is under way
AtRest == calls.add_log.pc = "idle" /\ calls.clear.pc = "idle"

SetsDerived ==
    /\ components = {logs[i].component : i \in DOMAIN logs}
    /\ log_levels = {logs[i].level : i \in DOMAIN logs}

ClearStep == calls'.clear # calls.clear

\* C24: whatever the interleaving of the add_log calls of load threads with
\* the clear calls of the UI, components is the set of the components of the
\* records in logs and log_levels the set of their levels; between two
\* clears neither set loses an element.
C24_SetsDerived ==
    /\ [](AtRest => SetsDerived)
    /\ [][~ClearStep => /\ components \subseteq components'
                        /\ log_levels \subseteq log_levels']_vars

----------------------------------------------------------------------------
(* The zone selector: a group loaded under UTC, then zones selected *)

MaxZoned == 3

ZoneDocs == {ErrorAt10Z, InfoAt3Z, NoTimestamp, NaiveAt10}

ZoneIngestions ==
    UNION {[1..n -> {"a.log"} \X ZoneDocs] : n \in 0..MaxZoned}

InitZone ==
    /\ \E ins \in ZoneIngestions :
          /\ logs \in AfterSort(Ingested(ins).logs)
          /\ components = Ingested(ins).components
          /\ log_levels = Ingested(ins).log_levels
          /\ loaded_files = Ingested(ins).loaded_files
    /\ threads = <<>>
    /\ files = <<>>
    /\ ViewIdle
    /\ timezone_var = "UTC"
    /\ entry = NotADict
    /\ processed = Idle
    /\ AppIdle
    /\ CallsIdle

\* a zone picked in the selector: on_timezone_change, and refresh_display
\* when the loop did not raise
OnTimezoneChange ==
    \E tz \in Zones :
        LET r == on_timezone_change(logs, tz)
            shown == apply_filters(r.logs, filters)
        IN  /\ timezone_var' = tz
            /\ logs' = r.logs
            /\ IF r.raised
               THEN UNCHANGED <<filtered_logs, view>>
               ELSE /\ filtered_logs' = shown.filtered_logs
                    /\ view' = [applied |-> TRUE, raised |-> shown.raised]
            /\ UNCHANGED <<components, log_levels, loaded_files, threads,
                           files, filters, normVars, appVars, callVars>>

NextZone == OnTimezoneChange

SpecZone == InitZone /\ [][NextZone]_vars

\* the display of an instant in a zone: the instant shifted by the zone's
\* offset, then the zone's abbreviation
Shifted(instant, tz) ==
    [ty |-> "fmt",
     t |-> instant.t + tz_map[tz] * SecondsPerHour,
     s |-> <<tz_names[tz]>>]

\* C25: after on_timezone_change every record with a real timestamp has a
\* display timestamp that is its parsed_timestamp shifted by the offset of
\* the selected zone, followed by the zone's abbreviation; parsed_timestamp,
\* the order of logs and the display of sentinel records are as before.
C25_DisplaysRederived ==
    [][/\ Len(logs') = Len(logs)
       /\ \A i \in DOMAIN logs :
             /\ [logs'[i] EXCEPT !.timestamp = logs[i].timestamp] = logs[i]
             /\ IF logs[i].parsed_timestamp = Sentinel
                THEN logs'[i].timestamp = logs[i].timestamp
                ELSE logs'[i].timestamp
                        = Shifted(logs[i].parsed_timestamp, timezone_var')]_vars

----------------------------------------------------------------------------
(* Claims about the lines of a file *)

\* one request was made on the group, for f, and its thread has ended
OnlyRequest(f) ==
    /\ Len(threads) = 1
    /\ threads[1].file = f
    /\ Finished(threads[1])

\* the p-th line of f is in the group, normalized, under line number p
IngestedAt(f, p) ==
    \E i \in DOMAIN logs :
        /\ logs[i].file_name = f
        /\ logs[i].line_number = p
        /\ logs[i].raw = files[f].lines[p].doc

\* C26: ingestion recovers line by line: blank lines are ignored, a line that
\* is not valid JSON is skipped without ending the load, and every
\* well-formed line of the file, before or after a malformed one, is
\* normalized and added to the group with its 1-based position in the file
\* as line_number.
C26_EveryGoodLineIngested ==
    \A f \in FileNames :
        OnlyRequest(f) /\ files[f].readable =>
            /\ \A p \in DOMAIN files[f].lines :
                  files[f].lines[p].kind = "doc" => IngestedAt(f, p)
            /\ Len(logs) = Cardinality({p \in DOMAIN files[f].lines :
                                           files[f].lines[p].kind = "doc"})

\* every thread started for f took its error path
EveryLoadFailed(f) ==
    /\ \E i \in DOMAIN threads : threads[i].file = f
    /\ \A i \in DOMAIN threads : threads[i].file = f => threads[i].pc = "error"

\* C28: a file name is in loaded_files only if the file was read and its lines
\* ingested: a Load or Add whose thread fails (the file cannot be read, or
\* the thread takes its error path on the way) does not leave the name in
\* loaded_files, so a later Add of the same name is not rejected.
C28_FailedLoadNotRegistered ==
    \A f \in FileNames : EveryLoadFailed(f) => f \notin loaded_files

----------------------------------------------------------------------------
(* Timeline correlation of two groups, to be compared with the correlation  *)
(* of the same groups taken the other way round                             *)

MaxSwapped == 2

ErrorAtMidnightZ ==
    LogDoc(JStr(<<"0001-01-01T00:00:00", "Z">>), JStr(<<"error">>), JStr(Aba))

SwapDocs ==
    {ErrorAbaAt10Z, UpperErrorBcaAt1030Z, WarnAbaAt1001Z, ErrorAbaNaiveAt10,
     ErrorBcaNoTimestamp, ErrorAtMidnightZ}

SwapIngestions(file_name) ==
    UNION {[1..n -> {file_name} \X SwapDocs] : n \in 0..MaxSwapped}

InitSwap ==
    /\ GroupEmpty
    /\ threads = <<>>
    /\ files = <<>>
    /\ ViewIdle
    /\ timezone_var = "UTC"
    /\ entry = NotADict
    /\ processed = Idle
    /\ AppIdle
    /\ analysis_text = <<>>
    /\ report = NoReport
    /\ \E ins1 \in SwapIngestions("a.log"), ins2 \in SwapIngestions("b.log") :
          \E logs1 \in AfterSort(Ingested(ins1).logs),
             logs2 \in AfterSort(Ingested(ins2).logs),
             w \in Windows :
                engine = NotCalled(logs1, logs2, [num |-> 1, den |-> 3], w)

NextSwap == FindTimelineCorrelations

SpecSwap == InitSwap /\ [][NextSwap]_vars

\* the entries that a call yields: none when it raises
EntriesOf(result) ==
    IF result.raised THEN {}
    ELSE {result.correlations[i] : i \in DOMAIN result.correlations}

\* d is c seen from the other group
Mirrors(c, d) ==
    /\ d.time_bucket.t
          = c.time_bucket.t + c.time_offset_minutes * SecondsPerMinute
    /\ d.time_offset_minutes = 0 - c.time_offset_minutes
    /\ d.server1_events = c.server2_events
    /\ d.server2_events = c.server1_events
    /\ d.server1_errors = c.server2_errors
    /\ d.server2_errors = c.server1_errors

\* C29: find_timeline_correlations(A, B, w) has an entry of time_bucket b and
\* offset k exactly when find_timeline_correlations(B, A, w) has an entry of
\* time_bucket b + k and offset -k whose event and error counts are those of
\* the first with server1 and server2 exchanged.
C29_TimelineSymmetric ==
    TimelineDone =>
        LET forth == EntriesOf(engine)
            back == EntriesOf(find_timeline_correlations(
                        engine.logs2, engine.logs1, engine.window_seconds))
        IN  /\ \A c \in forth : \E d \in back : Mirrors(c, d)
            /\ \A d \in back : \E c \in forth : Mirrors(d, c)

----------------------------------------------------------------------------
(* The server tabs of the main window: servers added, renamed and removed *)

MaxServers == 4

Letters ==
    <<"A", "B", "C", "D", "E", "F", "G", "H", "I", "J", "K", "L", "M",
      "N", "O", "P", "Q", "R", "S", "T", "U", "V", "W", "X", "Y", "Z">>

\* ord(letter) - ord('A') + 1
Ord(letter) == CHOOSE i \in DOMAIN Letters : Letters[i] = letter

\* chr(ord(letter) + 1), for the letters before 'Z'
NextLetter(letter) == Letters[Ord(letter) + 1]

\* dict[key] = value
Put(dict, key, value) ==
    [k \in DOMAIN dict \cup {key} |-> IF k = key THEN value ELSE dict[k]]

\* del dict[key]
Del(dict, key) == [k \in DOMAIN dict \ {key} |-> dict[k]]

\* main_notebook.forget(i)
Forget(tabs, i) == SubSeq(tabs, 1, i - 1) \o SubSeq(tabs, i + 1, Len(tabs))

\* lines 177-229, called without a letter (line 382): the letter is
\* next_server_letter, which moves on by one; the tab goes before the last
\* tab
add_server_tab(a) ==
    LET letter == a.next_server_letter
        server_key == ServerKey(letter)
        comparison_tab_index == Len(a.tabs) - 1
    IN  [tabs |-> SubSeq(a.tabs, 1, comparison_tab_index)
                    \o <<Tab(server_key, server_key)>>
                    \o SubSeq(a.tabs, comparison_tab_index + 1, Len(a.tabs)),
         server_groups |-> a.server_groups \cup {server_key},
         server_display_names |->
            Put(a.server_display_names, server_key, server_key),
         server_viewers |-> a.server_viewers \cup {server_key},
         server_frames |-> a.server_frames \cup {server_key},
         next_server_letter |-> NextLetter(letter)]

\* lines 687-705: the OK button of the rename dialog of server_key
apply_rename(a, server_key, new_name) ==
    IF new_name # <<>> /\ new_name # a.server_display_names[server_key]
    THEN [a EXCEPT
            !.server_display_names = Put(@, server_key, new_name),
            !.tabs = [i \in DOMAIN @ |->
                        IF server_key \in a.server_frames
                              /\ @[i].frame = server_key
                        THEN Tab(server_key, new_name) ELSE @[i]]]
    ELSE a

\* lines 239-243: the first tab whose text is the display name of server_key,
\* 0 for None
TabIndex(a, server_key) ==
    LET named == {i \in DOMAIN a.tabs :
                    a.tabs[i].text = a.server_display_names[server_key]}
    IN  IF named = {} THEN 0
        ELSE CHOOSE i \in named : \A j \in named : i <= j

\* lines 231-259
remove_server_tab(a, server_key) ==
    IF Cardinality(a.server_groups) <= 1 THEN a
    ELSE IF server_key \notin a.server_groups THEN a
    ELSE IF TabIndex(a, server_key) = 0 THEN a
    ELSE [tabs |-> Forget(a.tabs, TabIndex(a, server_key)),
          server_groups |-> a.server_groups \ {server_key},
          server_display_names |-> Del(a.server_display_names, server_key),
          server_viewers |-> a.server_viewers \ {server_key},
          server_frames |-> a.server_frames \ {server_key},
          next_server_letter |-> a.next_server_letter]

NewNames == {ServerKey("A"), <<"Prod">>, Comparison, <<>>}

ServerKeys == {ServerKey(Letters[i]) : i \in 1..MaxServers}

InitTabs ==
    /\ GroupEmpty
    /\ threads = <<>>
    /\ files = <<>>
    /\ ViewIdle
    /\ timezone_var = "UTC"
    /\ entry = NotADict
    /\ processed = Idle
    /\ AppIdle
    /\ CallsIdle

tabVars ==
    <<groupVars, threads, files, timezone_var, viewVars, normVars, callVars,
      calls>>

\* the Add Server command
AddServerTab ==
    /\ Ord(app.next_server_letter) <= MaxServers
    /\ app' = add_server_tab(app)
    /\ UNCHANGED tabVars

\* the rename dialog of a server, closed with OK
ApplyRename ==
    \E server_key \in app.server_groups, new_name \in NewNames :
        /\ app' = apply_rename(app, server_key, new_name)
        /\ UNCHANGED tabVars

\* the Remove command of a server
RemoveServerTab ==
    \E server_key \in ServerKeys :
        /\ app' = remove_server_tab(app, server_key)
        /\ UNCHANGED tabVars

NextTabs ==
    \/ AddServerTab
    \/ ApplyRename
    \/ RemoveServerTab

SpecTabs == InitTabs /\ [][NextTabs]_vars

\* the tabs other than the one made for server_key
TabsButOf(tabs, server_key) ==
    LET Other(tab) == tab.frame # server_key
    IN  SelectSeq(tabs, Other)

\* C30: a step that removes a server K removes K's own tab and K's entries
\* in server_groups, server_display_names, server_viewers and server_frames
\* and leaves every other server's tab and data in place, also when two
\* servers carry the same display name; the last remaining server is never
\* removed.
C30_RemoveActsOnItsServer ==
    /\ [](app.server_groups # {})
    /\ [][\A K \in app.server_groups \ app'.server_groups :
            /\ app'.tabs = TabsButOf(app.tabs, K)
            /\ app'.server_groups = app.server_groups \ {K}
            /\ app'.server_display_names = Del(app.server_display_names, K)
            /\ app'.server_viewers = app.server_viewers \ {K}
            /\ app'.server_frames = app.server_frames \ {K}]_vars

====
